---- MODULE Spec2Model ----
(***************************************************************************)
(* A model of the Shopify product tools (create, update, delete, get) and  *)
(* of the text helpers they share.                                         *)
(*                                                                         *)
(* A Python string is a sequence of symbols.  A symbol is one character    *)
(* ("a", " ", "\n", ...) or one HTML tag ("<p>", "</p>", "<div>",          *)
(* "</div>"); len() counts symbols.  A Python value is a record            *)
(* [t, s, v]: None, a str (its symbols in s) or a float (its value in      *)
(* hundredths in v).                                                       *)
(***************************************************************************)
EXTENDS Integers, Sequences, FiniteSets, TLC

VARIABLES
    store,      \* the shop: product id -> stored product (ids in DOMAIN)
    files,      \* the resource manager's output directory: file name -> contents
    pc,         \* position of the running tool invocation
    tool,       \* which tool is running ("none" before the invocation)
    inp,        \* the arguments _execute was called with
    product,    \* the in-memory shopify.Product the invocation works on
    loc,        \* the local variables of _execute
    calls,      \* the collaborator calls of the invocation, in order
    result,     \* what _execute returned or raised
    fn_call,    \* pure helpers: the function applied and its arguments
    fn_ret      \* pure helpers: its return value

vars == <<store, files, pc, tool, inp, product, loc, calls, result, fn_call, fn_ret>>

toolVars == <<store, files, pc, tool, inp, product, loc, calls, result>>

(***************************************************************************)
(* Python values                                                           *)
(***************************************************************************)
None == [t |-> "none", s |-> <<>>, v |-> 0]

Str(s) == [t |-> "str", s |-> s, v |-> 0]

Float(v) == [t |-> "float", s |-> <<>>, v |-> v]

IsNone(x) == x.t = "none"

IsStr(x) == x.t = "str"

IsFloat(x) == x.t = "float"

\* Python truthiness: None, "" and 0.0 are false.
Truthy(x) ==
    CASE x.t = "none" -> FALSE
      [] x.t = "str" -> x.s # <<>>
      [] x.t = "float" -> x.v # 0

(***************************************************************************)
(* Characters and strings                                                  *)
(***************************************************************************)
Digits == {"0", "1", "2", "3", "4", "5", "6", "7", "8", "9"}

\* str.isspace / regex \s
Whitespace == {" ", "\t", "\n", "\r"}

HtmlTags == {"<p>", "</p>", "<div>", "</div>"}

RECURSIVE LStrip(_)
LStrip(s) ==
    IF s # <<>> /\ Head(s) \in Whitespace THEN LStrip(Tail(s)) ELSE s

RECURSIVE RStrip(_)
RStrip(s) ==
    IF s # <<>> /\ s[Len(s)] \in Whitespace
    THEN RStrip(SubSeq(s, 1, Len(s) - 1))
    ELSE s

\* str.strip()
Strip(s) == RStrip(LStrip(s))

\* The k-th smallest position in P.
Nth(P, k) == CHOOSE i \in P : Cardinality({j \in P : j < i}) = k - 1

\* str.split(sep) for a one-character separator: the pieces between the
\* separators, always at least one piece.
Split(s, sep) ==
    LET P == {i \in 1..Len(s) : s[i] = sep}
        n == Cardinality(P)
    IN  [k \in 1..(n + 1) |->
            SubSeq(s, IF k = 1 THEN 1 ELSE Nth(P, k - 1) + 1,
                      IF k = n + 1 THEN Len(s) ELSE Nth(P, k) - 1)]

\* sep.join(parts)
RECURSIVE Join(_, _)
Join(parts, sep) ==
    IF parts = <<>> THEN <<>>
    ELSE IF Len(parts) = 1 THEN parts[1]
    ELSE parts[1] \o sep \o Join(Tail(parts), sep)

CommaSpace == <<",", " ">>

\* The number of leading digits of s.
RECURSIVE LeadingDigits(_)
LeadingDigits(s) ==
    IF s # <<>> /\ Head(s) \in Digits THEN 1 + LeadingDigits(Tail(s)) ELSE 0

(***************************************************************************)
(* trim_tags                                                               *)
(***************************************************************************)
\* re.sub(r'^\d+\.\s|\.$', '', tag): drop a leading "N. " and a final period.
StripNumbering(tag) ==
    LET k == LeadingDigits(tag)
        hasPrefix == /\ k >= 1
                     /\ Len(tag) >= k + 2
                     /\ tag[k + 1] = "."
                     /\ tag[k + 2] \in Whitespace
        rest == IF hasPrefix THEN SubSeq(tag, k + 3, Len(tag)) ELSE tag
    IN  IF rest # <<>> /\ rest[Len(rest)] = "."
        THEN SubSeq(rest, 1, Len(rest) - 1)
        ELSE rest

\* The cleaned tags of a reply, one per line.
CleanTags(tags_string) ==
    LET lines == Split(tags_string, "\n")
    IN  [i \in 1..Len(lines) |-> Strip(StripNumbering(lines[i]))]

\* A variant of TrimLoop that keeps the part of a tag that still fits and
\* excludes the tag.
RECURSIVE TrimLoopCutting(_, _, _, _)
TrimLoopCutting(tags_list, i, acc, max_length) ==
    IF i > Len(tags_list) THEN acc
    ELSE LET tag == tags_list[i]
             sep == IF acc.length > 0 THEN 2 ELSE 0
             new_length == Len(tag) + acc.length + sep
             room == max_length - acc.length - sep
         IN  IF new_length > max_length
             THEN TrimLoopCutting(
                      tags_list, i + 1,
                      [acc EXCEPT !.meta = Append(@, tag),
                                  !.tags = IF room > 0
                                           THEN Append(@, SubSeq(tag, 1, room))
                                           ELSE @,
                                  !.length = IF room > 0 THEN max_length ELSE @],
                      max_length)
             ELSE TrimLoopCutting(tags_list, i + 1,
                                  [acc EXCEPT !.tags = Append(@, tag),
                                              !.length = new_length], max_length)

\* The loop of trim_tags over tags_list[i..]: acc = [tags, meta, length].
RECURSIVE TrimLoop(_, _, _, _)
TrimLoop(tags_list, i, acc, max_length) ==
    IF i > Len(tags_list) THEN acc
    ELSE LET tag == tags_list[i]
             new_length == Len(tag) + acc.length
                           + (IF acc.length > 0 THEN 2 ELSE 0)
         IN  IF new_length > max_length
             THEN TrimLoop(tags_list, i + 1,
                           [acc EXCEPT !.meta = Append(@, tag)], max_length)
             ELSE TrimLoop(tags_list, i + 1,
                           [acc EXCEPT !.tags = Append(@, tag),
                                       !.length = new_length], max_length)

\* trim_tags(tags_string, max_length) -> (tags, tags_metadata), with the kept
\* and the overflow lists it was joined from.
trim_tags(tags_string, max_length) ==
    LET acc == TrimLoop(CleanTags(tags_string), 1,
                        [tags |-> <<>>, meta |-> <<>>, length |-> 0], max_length)
    IN  [tags |-> Str(Join(acc.tags, CommaSpace)),
         tags_metadata |-> IF acc.meta # <<>>
                           THEN Str(Join(acc.meta, CommaSpace))
                           ELSE None,
         kept |-> acc.tags,
         overflow |-> acc.meta]

(***************************************************************************)
(* trim_product_type                                                       *)
(***************************************************************************)
\* A variant of trim_product_type that keeps what was cut off, not the whole
\* original, as metadata.
trim_product_type_keeping_rest(product_type, max_length) ==
    IF Len(product_type) > max_length
    THEN [product_type |-> Str(SubSeq(product_type, 1, max_length)),
          type_metadata |-> Str(SubSeq(product_type, max_length + 1,
                                       Len(product_type)))]
    ELSE [product_type |-> Str(product_type), type_metadata |-> None]

\* trim_product_type(product_type, max_length) -> (product_type, metadata)
trim_product_type(product_type, max_length) ==
    IF Len(product_type) > max_length
    THEN [product_type |-> Str(SubSeq(product_type, 1, max_length)),
          type_metadata |-> Str(product_type)]
    ELSE [product_type |-> Str(product_type), type_metadata |-> None]

(***************************************************************************)
(* Title normalisation                                                     *)
(***************************************************************************)
LowerLetters ==
    <<"a", "b", "c", "d", "e", "f", "g", "h", "i", "j", "k", "l", "m",
      "n", "o", "p", "q", "r", "s", "t", "u", "v", "w", "x", "y", "z">>

UpperLetters ==
    <<"A", "B", "C", "D", "E", "F", "G", "H", "I", "J", "K", "L", "M",
      "N", "O", "P", "Q", "R", "S", "T", "U", "V", "W", "X", "Y", "Z">>

LowerSet == {LowerLetters[i] : i \in 1..26}

UpperSet == {UpperLetters[i] : i \in 1..26}

Letters == LowerSet \cup UpperSet

IsLower(c) == c \in LowerSet

IsUpper(c) == c \in UpperSet

IsLetter(c) == c \in Letters

ToLower(c) ==
    IF IsUpper(c) THEN LowerLetters[CHOOSE i \in 1..26 : UpperLetters[i] = c]
    ELSE c

ToUpper(c) ==
    IF IsLower(c) THEN UpperLetters[CHOOSE i \in 1..26 : LowerLetters[i] = c]
    ELSE c

\* str.lower()
Lower(s) == [i \in 1..Len(s) |-> ToLower(s[i])]

\* str.title(): a letter is upper-cased after a non-letter, lower-cased after
\* a letter.
TitleCase(s) ==
    [i \in 1..Len(s) |->
        IF i > 1 /\ IsLetter(s[i - 1]) THEN ToLower(s[i]) ELSE ToUpper(s[i])]

\* str.split() with no separator: the words between runs of whitespace.
RECURSIVE Words(_)
Words(s) ==
    LET t == LStrip(s)
    IN  IF t = <<>> THEN <<>>
        ELSE IF \E i \in 1..Len(t) : t[i] \in Whitespace
        THEN LET i == CHOOSE k \in 1..Len(t) :
                          /\ t[k] \in Whitespace
                          /\ \A j \in 1..(k - 1) : t[j] \notin Whitespace
             IN  <<SubSeq(t, 1, i - 1)>> \o Words(SubSeq(t, i + 1, Len(t)))
        ELSE <<t>>

small_words ==
    { <<"a">>, <<"a", "n">>, <<"a", "n", "d">>, <<"a", "s">>, <<"a", "t">>,
      <<"b", "u", "t">>, <<"b", "y">>, <<"f", "o", "r">>, <<"i", "f">>,
      <<"i", "n">>, <<"n", "o", "r">>, <<"o", "f">>, <<"o", "n">>,
      <<"o", "r">>, <<"s", "o">>, <<"t", "h", "e">>, <<"t", "o">>,
      <<"u", "p">>, <<"y", "e", "t">> }

\* A variant of normalize_title that lower-cases a small word wherever it
\* stands.
normalize_title_everywhere(title) ==
    LET title_words == Words(TitleCase(title))
        fixed == [i \in 1..Len(title_words) |->
                    IF Lower(title_words[i]) \in small_words
                    THEN Lower(title_words[i])
                    ELSE title_words[i]]
    IN  Join(fixed, <<" ">>)

\* title.title(), then interior small words lower-cased, joined by one space.
normalize_title(title) ==
    LET title_words == Words(TitleCase(title))
        n == Len(title_words)
        fixed == [i \in 1..n |->
                    IF i > 1 /\ i < n /\ Lower(title_words[i]) \in small_words
                    THEN Lower(title_words[i])
                    ELSE title_words[i]]
    IN  Join(fixed, <<" ">>)

(***************************************************************************)
(* Descriptions and HTML                                                   *)
(***************************************************************************)
RECURSIVE SelectNonBlank(_)
SelectNonBlank(lines) ==
    IF lines = <<>> THEN <<>>
    ELSE IF Strip(Head(lines)) # <<>>
    THEN <<Head(lines)>> \o SelectNonBlank(Tail(lines))
    ELSE SelectNonBlank(Tail(lines))

\* description.replace('\n', '</p><p>')
RECURSIVE ReplaceNewlines(_)
ReplaceNewlines(s) ==
    IF s = <<>> THEN <<>>
    ELSE IF Head(s) = "\n" THEN <<"</p>", "<p>">> \o ReplaceNewlines(Tail(s))
    ELSE <<Head(s)>> \o ReplaceNewlines(Tail(s))

\* re.sub(r'(</p><p>)+', '</p><p>', s): a run of "</p><p>" becomes one.
RECURSIVE CollapseParagraphBreaks(_)
CollapseParagraphBreaks(s) ==
    IF Len(s) >= 4 /\ s[1] = "</p>" /\ s[2] = "<p>" /\ s[3] = "</p>" /\ s[4] = "<p>"
    THEN CollapseParagraphBreaks(SubSeq(s, 3, Len(s)))
    ELSE IF Len(s) >= 2 /\ s[1] = "</p>" /\ s[2] = "<p>"
    THEN <<"</p>", "<p>">> \o CollapseParagraphBreaks(SubSeq(s, 3, Len(s)))
    ELSE IF s = <<>> THEN <<>>
    ELSE <<Head(s)>> \o CollapseParagraphBreaks(Tail(s))

\* The HTML a description is turned into: one paragraph per non-blank line.
wrap_description(description) ==
    LET kept == Join(SelectNonBlank(Split(description, "\n")), <<"\n">>)
    IN  CollapseParagraphBreaks(<<"<p>">> \o ReplaceNewlines(kept) \o <<"</p>">>)

\* The text nodes of a document: the runs of characters between tags.
RECURSIVE TextNodes(_, _)
TextNodes(html, cur) ==
    IF html = <<>> THEN <<cur>>
    ELSE IF Head(html) \in HtmlTags THEN <<cur>> \o TextNodes(Tail(html), <<>>)
    ELSE TextNodes(Tail(html), Append(cur, Head(html)))

RECURSIVE ConcatStripped(_)
ConcatStripped(nodes) ==
    IF nodes = <<>> THEN <<>>
    ELSE Strip(Head(nodes)) \o ConcatStripped(Tail(nodes))

\* BeautifulSoup(value, "html.parser").get_text(strip=True)
get_text_strip(html) == ConcatStripped(TextNodes(html, <<>>))

\* The text of each <p> element, in document order (paragraphs are not
\* nested in the documents modelled; an unclosed one ends with the document).
RECURSIVE Paragraphs(_, _, _)
Paragraphs(html, inP, cur) ==
    IF html = <<>> THEN (IF inP THEN <<cur>> ELSE <<>>)
    ELSE LET c == Head(html) IN
         IF c = "<p>" /\ ~inP THEN Paragraphs(Tail(html), TRUE, <<>>)
         ELSE IF c = "</p>" /\ inP THEN <<cur>> \o Paragraphs(Tail(html), FALSE, <<>>)
         ELSE IF c \in HtmlTags THEN Paragraphs(Tail(html), inP, cur)
         ELSE Paragraphs(Tail(html), inP, IF inP THEN Append(cur, c) ELSE cur)

\* html_to_plain_text(html)
html_to_plain_text(html) == Join(Paragraphs(html, FALSE, <<>>), <<"\n">>)

(***************************************************************************)
(* Numbers.  A float is held in hundredths; the literals and replies       *)
(* modelled have at most two fractional digits.                            *)
(***************************************************************************)
DigitSeq == <<"0", "1", "2", "3", "4", "5", "6", "7", "8", "9">>

DigitVal(c) == (CHOOSE i \in 1..10 : DigitSeq[i] = c) - 1

RECURSIVE ToInt(_)
ToInt(ds) ==
    IF ds = <<>> THEN 0
    ELSE ToInt(SubSeq(ds, 1, Len(ds) - 1)) * 10 + DigitVal(ds[Len(ds)])

RECURSIVE FromInt(_)
FromInt(n) ==
    IF n < 10 THEN <<DigitSeq[n + 1]>>
    ELSE FromInt(n \div 10) \o <<DigitSeq[(n % 10) + 1]>>

AllDigits(s) == \A i \in 1..Len(s) : s[i] \in Digits

\* float(s) for a str: [ok, v]; ok is FALSE where Python raises ValueError.
ParseFloat(s) ==
    LET t == Strip(s)
        signed == t # <<>> /\ Head(t) \in {"-", "+"}
        body == IF signed THEN Tail(t) ELSE t
        parts == Split(body, ".")
        ip == parts[1]
        fp == IF Len(parts) = 2 THEN parts[2] ELSE <<>>
        ok == /\ Len(parts) <= 2
              /\ AllDigits(ip) /\ AllDigits(fp)
              /\ Len(ip) + Len(fp) >= 1
        f2 == SubSeq(fp \o <<"0", "0">>, 1, 2)
        mag == ToInt(ip) * 100 + ToInt(f2)
    IN  IF ok
        THEN [ok |-> TRUE, v |-> IF signed /\ Head(t) = "-" THEN 0 - mag ELSE mag]
        ELSE [ok |-> FALSE, v |-> 0]

\* str(x) for a float x
FormatFloat(v) ==
    LET mag == IF v < 0 THEN 0 - v ELSE v
        frac == mag % 100
        fs == IF frac % 10 = 0 THEN <<DigitSeq[(frac \div 10) + 1]>>
              ELSE <<DigitSeq[(frac \div 10) + 1], DigitSeq[(frac % 10) + 1]>>
    IN  (IF v < 0 THEN <<"-">> ELSE <<>>) \o FromInt(mag \div 100) \o <<".">> \o fs

\* float(value) for any value: a float is returned as it is.
ToFloat(value) ==
    IF IsFloat(value) THEN [ok |-> TRUE, v |-> value.v]
    ELSE IF IsStr(value) THEN ParseFloat(value.s)
    ELSE [ok |-> FALSE, v |-> 0]

Contains(s, c) == \E i \in 1..Len(s) : s[i] = c

\* s.replace(c, "")
RECURSIVE Remove(_, _)
Remove(s, c) ==
    IF s = <<>> THEN <<>>
    ELSE IF Head(s) = c THEN Remove(Tail(s), c)
    ELSE <<Head(s)>> \o Remove(Tail(s), c)

WordChars == Letters \cup Digits \cup {"_"}

\* regex \w
IsWordChar(c) == c \in WordChars

\* re.findall(r"\b\d+\b", s): the runs of digits with no word character on
\* either side, scanning from position i.
RECURSIVE NumberRuns(_, _)
NumberRuns(s, i) ==
    IF i > Len(s) THEN <<>>
    ELSE IF s[i] \in Digits /\ (i = 1 \/ ~IsWordChar(s[i - 1]))
    THEN LET k == LeadingDigits(SubSeq(s, i, Len(s)))
             closed == i + k > Len(s) \/ ~IsWordChar(s[i + k])
         IN  (IF closed THEN <<SubSeq(s, i, i + k - 1)>> ELSE <<>>)
             \o NumberRuns(s, i + k)
    ELSE NumberRuns(s, i + 1)

(***************************************************************************)
(* The completion collaborator                                             *)
(***************************************************************************)
\* generate_info(task_description): reply is what the model answered; an
\* empty or null reply raises ValueError.
generate_info(reply) ==
    IF Truthy(reply) THEN [raised |-> FALSE, value |-> reply]
    ELSE [raised |-> TRUE, value |-> None]

\* The test that sends a price reply to disambiguation.
PriceAmbiguous(price) ==
    \/ Contains(price, "-") \/ Contains(price, ",") \/ Contains(price, " ")
    \/ Len(Words(price)) > 5

\* A variant of _generate_specific_price that asks the follow-up for every
\* ambiguous reply.
generate_specific_price_asking_again(first, second) ==
    LET g1 == generate_info(first)
        amb == PriceAmbiguous(first.s)
        g2 == generate_info(second)
        asked == IF amb THEN 2 ELSE 1
        parsed == ParseFloat(Remove(IF amb THEN second.s ELSE first.s, "$"))
        failed == [raised |-> TRUE, price |-> None, price_metadata |-> None,
                   asked |-> asked]
    IN  IF g1.raised THEN [failed EXCEPT !.asked = 1]
        ELSE IF amb /\ g2.raised THEN failed
        ELSE IF ~parsed.ok THEN failed
        ELSE [raised |-> FALSE, price |-> Float(parsed.v),
              price_metadata |-> IF amb THEN first ELSE None,
              asked |-> asked]

\* _generate_specific_price: first and second are the replies to the first
\* prompt and to the follow-up.  asked counts the completion calls made.
generate_specific_price(first, second) ==
    LET g1 == generate_info(first)
        amb == PriceAmbiguous(first.s)
        price_range == NumberRuns(first.s, 1)
        two == Len(price_range) = 2
        g2 == generate_info(second)
        asked == IF amb /\ ~two THEN 2 ELSE 1
        text == IF ~amb THEN first.s
                ELSE IF two
                THEN FormatFloat((ToInt(price_range[1]) * 100
                                  + ToInt(price_range[2]) * 100) \div 2)
                ELSE second.s
        parsed == ParseFloat(Remove(text, "$"))
        failed == [raised |-> TRUE, price |-> None, price_metadata |-> None,
                   asked |-> asked]
    IN  IF g1.raised THEN [failed EXCEPT !.asked = 1]
        ELSE IF amb /\ ~two /\ g2.raised THEN failed
        ELSE IF ~parsed.ok THEN failed
        ELSE [raised |-> FALSE, price |-> Float(parsed.v),
              price_metadata |-> IF amb THEN first ELSE None,
              asked |-> asked]

\* The test that sends a vendor reply to disambiguation.
VendorAmbiguous(vendor) == Contains(vendor, ",") \/ Len(Words(vendor)) > 5

\* _generate_specific_vendor
generate_specific_vendor(first, second) ==
    LET g1 == generate_info(first)
        amb == VendorAmbiguous(first.s)
        g2 == generate_info(second)
    IN  IF g1.raised
        THEN [raised |-> TRUE, vendor |-> None, vendor_metadata |-> None, asked |-> 1]
        ELSE IF ~amb
        THEN [raised |-> FALSE, vendor |-> first, vendor_metadata |-> None, asked |-> 1]
        ELSE IF g2.raised
        THEN [raised |-> TRUE, vendor |-> None, vendor_metadata |-> None, asked |-> 2]
        ELSE [raised |-> FALSE, vendor |-> second, vendor_metadata |-> first,
              asked |-> 2]

(***************************************************************************)
(* validate_field                                                          *)
(***************************************************************************)
\* The characters of the pattern ^[a-zA-Z0-9\s\-.,!?'";:/]*$
AllowedPunctuation == {"-", ".", ",", "!", "?", "'", "\"", ";", ":", "/"}

AllowedChars == Letters \cup Digits \cup Whitespace \cup AllowedPunctuation

IsAllowedChar(c) == c \in AllowedChars

Valid(value) == [raised |-> FALSE, reason |-> "", value |-> value]

Invalid(reason, value) == [raised |-> TRUE, reason |-> reason, value |-> value]

\* The html branch (114-125), text being the text extracted from value.
validate_html(value, text, max_length) ==
    IF text = <<>> THEN Invalid("empty_html", value)
    ELSE IF Len(text) > max_length THEN Invalid("too_long", value)
    ELSE Valid(value)

\* The price branch (126-134), parsed being float(value).
validate_price(value, parsed) ==
    IF ~parsed.ok THEN Invalid("not_numeric", value)
    ELSE IF parsed.v < 0 THEN Invalid("negative", Float(parsed.v))
    ELSE Valid(Float(parsed.v))

\* The string branch (104-113)
validate_string(value, max_length) ==
    IF ~(\A i \in 1..Len(value.s) : IsAllowedChar(value.s[i]))
    THEN Invalid("bad_characters", value)
    ELSE IF Len(value.s) > max_length THEN Invalid("too_long", value)
    ELSE Valid(value)

\* validate_field(value, max_length, field_name, field_type, required):
\* the validated value, or the ValueError raised (by its reason).
validate_field(value, max_length, field_type, required) ==
    IF required /\ ~Truthy(value) THEN Invalid("required", value)
    ELSE IF ~Truthy(value) THEN Valid(value)
    ELSE IF field_type = "price" THEN validate_price(value, ToFloat(value))
    ELSE IF field_type \in {"string", "html"} /\ ~IsStr(value)
    THEN Invalid("not_a_string", value)
    ELSE IF field_type = "string" THEN validate_string(value, max_length)
    ELSE IF field_type = "html"
    THEN validate_html(value, get_text_strip(value.s), max_length)
    ELSE Valid(value)

(***************************************************************************)
(* The shop, the products and what a tool returns                          *)
(***************************************************************************)
MaxFieldLength == 255

MaxDescriptionLength == 65535

Product(id, title, body_html, product_type, vendor, tags, variants, metafields) ==
    [id |-> id, title |-> title, body_html |-> body_html,
     product_type |-> product_type, vendor |-> vendor, tags |-> tags,
     variants |-> variants, metafields |-> metafields]

\* shopify.Product(): a new product, not saved yet (id 0).
NewProduct == Product(0, None, None, None, None, None, <<>>, <<>>)

\* No product object (find returned nothing).
NoProduct == Product(0 - 1, None, None, None, None, None, <<>>, <<>>)

\* The store before the invocation: two products, the second without variants.
CatToy ==
    Product(1, Str(<<"C", "a", "t", " ", "T", "o", "y">>),
            Str(<<"<p>", "s", "o", "f", "t", "</p>">>),
            Str(<<"t", "o", "y">>), Str(<<"a", "c", "m", "e">>),
            Str(<<"r", "e", "d">>),
            <<Str(<<"1", "0", ".", "0", "0">>), Str(<<"1", "2", ".", "0", "0">>)>>,
            <<>>)

DogBed ==
    Product(2, Str(<<"D", "o", "g", " ", "B", "e", "d">>),
            Str(<<"<p>", "w", "a", "r", "m", "</p>">>),
            Str(<<"b", "e", "d">>), Str(<<"z", "e", "d">>),
            Str(<<"b", "i", "g">>), <<>>, <<>>)

InitialStore == [i \in {1, 2} |-> IF i = 1 THEN CatToy ELSE DogBed]

\* The id the shop gives the next product saved.
NextId(st) == IF DOMAIN st = {} THEN 1
              ELSE (CHOOSE m \in DOMAIN st : \A k \in DOMAIN st : k <= m) + 1

\* One collaborator call: c is "complete" (the completion collaborator),
\* "find", "save", "add_metafield", "destroy" (the product store) or
\* "write_file" (the resource manager); a says what for; ok is its outcome.
Call(c, a, ok) == [c |-> c, a |-> a, ok |-> ok]

StoreCalls == {"find", "save", "add_metafield", "destroy"}

\* The report of a product: the fields the tools print.
Report(p) ==
    [title |-> p.title,
     description |-> IF IsStr(p.body_html) THEN Str(html_to_plain_text(p.body_html.s))
                     ELSE None,
     product_type |-> p.product_type, vendor |-> p.vendor, tags |-> p.tags,
     price |-> IF p.variants # <<>> THEN p.variants[1] ELSE None,
     product_id |-> p.id,
     metafields_values |-> [i \in 1..Len(p.metafields) |-> p.metafields[i].value]]

NoReport == Report(NoProduct)

\* What _execute gave back.  kind: "running" (not returned yet), "str" (a
\* string), "none" (None), "exception_object" (an exception instance,
\* returned) or "raised" (an exception left _execute).  tag names the
\* message or the exception; field the field a validation error names.
Result(kind, tag, field, report) ==
    [kind |-> kind, tag |-> tag, field |-> field, report |-> report]

Running == Result("running", "", "", NoReport)

Raised(exception) == Result("raised", exception, "", NoReport)

(***************************************************************************)
(* Arguments and replies of the invocations modelled                       *)
(***************************************************************************)
\* How many of the six fields one update names (by a literal or a flag).
MaxTouched == 3

Lit_title == Str(<<"t", "o", "y", " ", "f", "o", "r", " ", "c", "a", "t">>)

Lit_description == Str(<<"n", "e", "w">>)

Lit_product_type == Str(<<"g", "a", "m", "e">>)

Lit_tags == Str(<<"b", "l", "u", "e">>)

Lit_price == Str(<<"1", "9", ".", "9", "9">>)

Lit_negative_price == Str(<<"-", "5">>)

Lit_vendor == Str(<<"n", "o", "v", "a">>)

Lit_bad_vendor == Str(<<"n", "#">>)

Literals ==
    [title |-> {Lit_title}, description |-> {Lit_description},
     product_type |-> {Lit_product_type}, tags |-> {Lit_tags},
     price |-> {Lit_price, Lit_negative_price},
     vendor |-> {Lit_vendor, Lit_bad_vendor}]

Fields == {"title", "description", "product_type", "tags", "price", "vendor"}

LongType == [i \in 1..(MaxFieldLength + 1) |-> "x"]

\* Two tags, one per line, that do not fit the tags budget together.
LongTags == [i \in 1..(MaxFieldLength + 3) |->
                IF i = MaxFieldLength THEN "\n" ELSE "y"]

\* The replies of the completion collaborator, by what was asked.  None is
\* the empty reply.
Replies ==
    [title |-> {None, Str(<<"b", "e", "d", " ", "o", "f", " ", "d", "o", "g">>)},
     description |-> {None, Str(<<"w", "a", "r", "m", "\n", "\n", "d", "r", "y">>),
                      Str(<<" ">>)},
     product_type |-> {None, Str(<<"b", "e", "d">>), Str(LongType)},
     tags |-> {None, Str(<<"1", ".", " ", "b", "i", "g", ".", "\n", "o", "l", "d">>),
               Str(LongTags)},
     price |-> {None, Str(<<"$", "7", ".", "5", "0">>),
                Str(<<"1", "0", " ", "-", " ", "2", "0">>),
                Str(<<"a", "b", "o", "u", "t", " ", "t", "e", "n">>),
                Str(<<"0">>)},
     price_followup |-> {None, Str(<<"8">>), Str(<<"t", "e", "n">>)},
     vendor |-> {None, Str(<<"z", "e", "d">>), Str(<<"z", "e", "d", ",", "n", "o", "v", "a">>)},
     vendor_followup |-> {None, Str(<<"z", "e", "d">>)}]

\* The arguments of one invocation; a tool ignores those it does not take.
Args(product_id, lit, gen) ==
    [product_id |-> product_id,
     title |-> lit.title, description |-> lit.description,
     product_type |-> lit.product_type, tags |-> lit.tags,
     price |-> lit.price, vendor |-> lit.vendor,
     generate |-> gen]

NoLiterals == [f \in Fields |-> None]

NoFlags == [f \in Fields |-> FALSE]

NoArgs == Args(None, NoLiterals, NoFlags)

Opt(f) == {None} \cup Literals[f]

\* Every field None or one of its literals.
LiteralSets ==
    {[title |-> t, description |-> d, product_type |-> y, tags |-> g,
      price |-> p, vendor |-> v] :
        t \in Opt("title"), d \in Opt("description"), y \in Opt("product_type"),
        g \in Opt("tags"), p \in Opt("price"), v \in Opt("vendor")}

\* The local variables of _execute.
Locals(a) ==
    [title |-> a.title, description |-> a.description,
     product_type |-> a.product_type, tags |-> a.tags,
     price |-> a.price, vendor |-> a.vendor,
     type_metadata |-> None, vendor_metadata |-> None,
     tags_metadata |-> None, price_metadata |-> None,
     price_attr |-> "unread"]

(***************************************************************************)
(* Steps shared by the tools                                               *)
(***************************************************************************)
\* _execute returns or raises: the invocation is over.
Finish(res) ==
    /\ result' = res
    /\ pc' = "done"

\* The completion calls of one generation: the first prompt and, when a
\* second reply was asked for, the follow-up.
CompletionCalls(field, asked, first, second) ==
    <<Call("complete", field, Truthy(first))>>
    \o (IF asked = 2 THEN <<Call("complete", field \o "_followup", Truthy(second))>>
        ELSE <<>>)

\* A variant of ai_metadata that leaves the pricing note out.
ai_metadata_without_price(l) ==
    (IF Truthy(l.type_metadata)
     THEN <<[label |-> "Product Type Information: ", text |-> l.type_metadata.s]>>
     ELSE <<>>)
    \o (IF Truthy(l.vendor_metadata)
        THEN <<[label |-> "Vendor Information: ", text |-> l.vendor_metadata.s]>>
        ELSE <<>>)
    \o (IF Truthy(l.tags_metadata)
        THEN <<[label |-> "Additional Tags: ", text |-> l.tags_metadata.s]>>
        ELSE <<>>)

\* The labelled overflow notes of the invocation, None entries dropped.
ai_metadata(l) ==
    (IF Truthy(l.type_metadata)
     THEN <<[label |-> "Product Type Information: ", text |-> l.type_metadata.s]>>
     ELSE <<>>)
    \o (IF Truthy(l.vendor_metadata)
        THEN <<[label |-> "Vendor Information: ", text |-> l.vendor_metadata.s]>>
        ELSE <<>>)
    \o (IF Truthy(l.tags_metadata)
        THEN <<[label |-> "Additional Tags: ", text |-> l.tags_metadata.s]>>
        ELSE <<>>)
    \o (IF Truthy(l.price_metadata)
        THEN <<[label |-> "Pricing Information: ", text |-> l.price_metadata.s]>>
        ELSE <<>>)

\* The metafield holding the notes; its value is the notes joined by blank
\* lines, kept as the list of its paragraphs.
AiMetafield(notes) ==
    [namespace |-> "ai_metadata", key |-> "ai_results", value |-> notes]

\* product.save() succeeded: the shop holds the product as it is in memory
\* (a new product gets its id).
Saved(st, p) ==
    LET id == IF p.id = 0 THEN NextId(st) ELSE p.id
        q == [p EXCEPT !.id = id]
    IN  [i \in DOMAIN st \cup {id} |-> IF i = id THEN q ELSE st[i]]

SaveOutcomes == {"ok", "fail", "raise"}

\* The save of the product (create 455-466, update 893-905).
SaveProduct(next) ==
    \E outcome \in SaveOutcomes :
        /\ calls' = Append(calls, Call("save", "product", outcome = "ok"))
        /\ UNCHANGED <<files, tool, inp, loc>>
        /\ IF outcome = "ok"
           THEN /\ store' = Saved(store, product)
                /\ product' = [product EXCEPT
                                 !.id = IF @ = 0 THEN NextId(store) ELSE @]
                /\ pc' = next
                /\ UNCHANGED result
           ELSE /\ Finish(Result("str",
                                 IF outcome = "fail" THEN "save_failed"
                                 ELSE "save_error", "", NoReport))
                /\ UNCHANGED <<store, product>>

\* After the save (create 468-541, update 907-977): the notes are attached
\* as a metafield and the product is saved twice more, the first result
\* dropped and the second only logged; then the report is returned.
AttachMetadata ==
    LET notes == ai_metadata(loc)
        withMeta == [product EXCEPT !.metafields = Append(@, AiMetafield(notes))]
    IN  IF notes = <<>>
        THEN /\ Finish(Result("str", "success", "", Report(product)))
             /\ UNCHANGED <<store, files, tool, inp, product, loc, calls>>
        ELSE \E first \in SaveOutcomes, second \in SaveOutcomes :
               LET st1 == IF first = "ok" THEN Saved(store, withMeta) ELSE store
                   st2 == IF second = "ok" THEN Saved(st1, withMeta) ELSE st1
                   c1 == calls \o <<Call("add_metafield", "ai_results", TRUE),
                                    Call("save", "metafield", first = "ok")>>
               IN  /\ product' = withMeta
                   /\ UNCHANGED <<files, tool, inp, loc>>
                   /\ IF first = "raise"
                      THEN /\ store' = store
                           /\ calls' = c1
                           /\ Finish(Raised("Exception"))
                      ELSE /\ store' = st2
                           /\ calls' = Append(c1, Call("save", "metafield",
                                                       second = "ok"))
                           /\ IF second = "raise"
                              THEN Finish(Raised("Exception"))
                              ELSE Finish(Result("str", "success", "",
                                                 Report(withMeta)))

(***************************************************************************)
(* Create Product                                                          *)
(***************************************************************************)
\* A variant of CreateStart that returns the warning whenever the title is
\* missing.
CreateStartNeedingTitle ==
    /\ pc = "idle"
    /\ \E lit \in LiteralSets :
         LET a == Args(None, lit, NoFlags) IN
         /\ tool' = "create"
         /\ inp' = a
         /\ loc' = Locals(a)
         /\ IF ~Truthy(a.title)
            THEN /\ Finish(Result("str", "insufficient", "", NoReport))
                 /\ UNCHANGED product
            ELSE /\ pc' = "c_title"
                 /\ product' = NewProduct
                 /\ UNCHANGED result
    /\ UNCHANGED <<store, files, calls, fn_call, fn_ret>>

\* _execute is entered (355-364): without a title, a product type and a
\* description it returns the warning at once.
CreateStart ==
    /\ pc = "idle"
    /\ \E lit \in LiteralSets :
         LET a == Args(None, lit, NoFlags) IN
         /\ tool' = "create"
         /\ inp' = a
         /\ loc' = Locals(a)
         /\ IF ~Truthy(a.title) /\ ~Truthy(a.product_type) /\ ~Truthy(a.description)
            THEN /\ Finish(Result("str", "insufficient", "", NoReport))
                 /\ UNCHANGED product
            ELSE /\ pc' = "c_title"
                 /\ product' = NewProduct
                 /\ UNCHANGED result
    /\ UNCHANGED <<store, files, calls, fn_call, fn_ret>>

\* A variant of CreateTitle in which the draft is saved as soon as it has
\* its title.
CreateTitleSavingDraft ==
    /\ pc = "c_title"
    /\ \E reply \in Replies.title :
         LET asked == ~Truthy(loc.title)
             g == IF asked THEN generate_info(reply)
                  ELSE [raised |-> FALSE, value |-> loc.title]
             title == Str(normalize_title(g.value.s))
         IN  IF g.raised
             THEN /\ calls' = calls \o CompletionCalls("title", 1, reply, None)
                  /\ Finish(Raised("ValueError"))
                  /\ UNCHANGED <<loc, product, store>>
             ELSE /\ calls' = (IF asked
                               THEN calls \o CompletionCalls("title", 1, reply, None)
                               ELSE calls)
                              \o <<Call("save", "product", TRUE)>>
                  /\ loc' = [loc EXCEPT !.title = title]
                  /\ product' = [product EXCEPT !.title = title,
                                                !.id = NextId(store)]
                  /\ store' = Saved(store, [product EXCEPT !.title = title])
                  /\ pc' = "c_description"
                  /\ UNCHANGED result
    /\ UNCHANGED <<files, tool, inp, fn_call, fn_ret>>

\* The title (370-393): generated when not given, then normalised.
CreateTitle ==
    /\ pc = "c_title"
    /\ \E reply \in Replies.title :
         LET asked == ~Truthy(loc.title)
             g == IF asked THEN generate_info(reply)
                  ELSE [raised |-> FALSE, value |-> loc.title]
             title == Str(normalize_title(g.value.s))
         IN  /\ calls' = IF asked THEN calls \o CompletionCalls("title", 1, reply, None)
                         ELSE calls
             /\ IF g.raised
                THEN /\ Finish(Raised("ValueError"))
                     /\ UNCHANGED <<loc, product>>
                ELSE /\ loc' = [loc EXCEPT !.title = title]
                     /\ product' = [product EXCEPT !.title = title]
                     /\ pc' = "c_description"
                     /\ UNCHANGED result
    /\ UNCHANGED <<store, files, tool, inp, fn_call, fn_ret>>

\* The description (408-415)
CreateDescription ==
    /\ pc = "c_description"
    /\ \E reply \in Replies.description :
         LET asked == ~Truthy(loc.description)
             g == generate_info(reply)
         IN  /\ calls' = IF asked
                         THEN calls \o CompletionCalls("description", 1, reply, None)
                         ELSE calls
             /\ IF asked /\ g.raised
                THEN /\ Finish(Raised("ValueError"))
                     /\ UNCHANGED loc
                ELSE /\ loc' = IF asked
                               THEN [loc EXCEPT !.description =
                                        Str(wrap_description(g.value.s))]
                               ELSE loc
                     /\ pc' = "c_product_type"
                     /\ UNCHANGED result
    /\ UNCHANGED <<store, files, tool, inp, product, fn_call, fn_ret>>

\* The product type (416-421)
CreateProductType ==
    /\ pc = "c_product_type"
    /\ \E reply \in Replies.product_type :
         LET asked == ~Truthy(loc.product_type)
             g == generate_info(reply)
             t == trim_product_type(g.value.s, MaxFieldLength)
         IN  /\ calls' = IF asked
                         THEN calls \o CompletionCalls("product_type", 1, reply, None)
                         ELSE calls
             /\ IF asked /\ g.raised
                THEN /\ Finish(Raised("ValueError"))
                     /\ UNCHANGED loc
                ELSE /\ loc' = IF asked
                               THEN [loc EXCEPT !.product_type = t.product_type,
                                                !.type_metadata = t.type_metadata]
                               ELSE loc
                     /\ pc' = "c_tags"
                     /\ UNCHANGED result
    /\ UNCHANGED <<store, files, tool, inp, product, fn_call, fn_ret>>

\* The tags (422-424)
CreateTags ==
    /\ pc = "c_tags"
    /\ \E reply \in Replies.tags :
         LET asked == ~Truthy(loc.tags)
             g == generate_info(reply)
             t == trim_tags(g.value.s, MaxFieldLength)
         IN  /\ calls' = IF asked
                         THEN calls \o CompletionCalls("tags", 1, reply, None)
                         ELSE calls
             /\ IF asked /\ g.raised
                THEN /\ Finish(Raised("ValueError"))
                     /\ UNCHANGED loc
                ELSE /\ loc' = IF asked
                               THEN [loc EXCEPT !.tags = t.tags,
                                                !.tags_metadata = t.tags_metadata]
                               ELSE loc
                     /\ pc' = "c_price"
                     /\ UNCHANGED result
    /\ UNCHANGED <<store, files, tool, inp, product, fn_call, fn_ret>>

\* The price (425-427)
CreatePrice ==
    /\ pc = "c_price"
    /\ \E first \in Replies.price, second \in Replies.price_followup :
         LET asked == ~Truthy(loc.price)
             r == generate_specific_price(first, second)
         IN  /\ calls' = IF asked
                         THEN calls \o CompletionCalls("price", r.asked, first, second)
                         ELSE calls
             /\ IF asked /\ r.raised
                THEN /\ Finish(Raised("ValueError"))
                     /\ UNCHANGED loc
                ELSE /\ loc' = IF asked
                               THEN [loc EXCEPT !.price = r.price,
                                                !.price_metadata = r.price_metadata]
                               ELSE loc
                     /\ pc' = "c_vendor"
                     /\ UNCHANGED result
    /\ UNCHANGED <<store, files, tool, inp, product, fn_call, fn_ret>>

\* The vendor (428-430)
CreateVendor ==
    /\ pc = "c_vendor"
    /\ \E first \in Replies.vendor, second \in Replies.vendor_followup :
         LET asked == ~Truthy(loc.vendor)
             r == generate_specific_vendor(first, second)
         IN  /\ calls' = IF asked
                         THEN calls \o CompletionCalls("vendor", r.asked, first, second)
                         ELSE calls
             /\ IF asked /\ r.raised
                THEN /\ Finish(Raised("ValueError"))
                     /\ UNCHANGED loc
                ELSE /\ loc' = IF asked
                               THEN [loc EXCEPT !.vendor = r.vendor,
                                                !.vendor_metadata = r.vendor_metadata]
                               ELSE loc
                     /\ pc' = "c_validate"
                     /\ UNCHANGED result
    /\ UNCHANGED <<store, files, tool, inp, product, fn_call, fn_ret>>

\* The outcome of the five validations of create, given what each gave, in
\* the order of the code: the first that raised decides.
create_outcome(d, y, g, c, v, p) ==
    IF d.raised THEN [failed |-> TRUE, field |-> "Description", product |-> p]
    ELSE IF y.raised THEN [failed |-> TRUE, field |-> "Product type", product |-> p]
    ELSE IF g.raised THEN [failed |-> TRUE, field |-> "Tags", product |-> p]
    ELSE IF c.raised THEN [failed |-> TRUE, field |-> "Price", product |-> p]
    ELSE IF v.raised THEN [failed |-> TRUE, field |-> "Vendor", product |-> p]
    ELSE [failed |-> FALSE, field |-> "",
          product |-> [p EXCEPT !.body_html = d.value,
                                !.product_type = y.value,
                                !.tags = g.value,
                                !.variants = <<c.value>>,
                                !.vendor = v.value]]

\* The validations of create (432-442).  [failed, field, product]
create_validation(l, p) ==
    create_outcome(
        validate_field(l.description, MaxDescriptionLength, "html", TRUE),
        validate_field(l.product_type, MaxFieldLength, "string", TRUE),
        validate_field(l.tags, MaxFieldLength, "string", FALSE),
        validate_field(l.price, MaxFieldLength, "price", TRUE),
        validate_field(l.vendor, MaxFieldLength, "string", TRUE),
        p)

\* A variant of CreateValidate in which the product is saved before the
\* validation error is returned.
CreateValidateAfterSave ==
    /\ pc = "c_validate"
    /\ \E r \in {create_validation(loc, product)} :
       IF r.failed
       THEN /\ Finish(Result("str", "validation_error", r.field, NoReport))
            /\ calls' = Append(calls, Call("save", "product", TRUE))
            /\ store' = Saved(store, product)
            /\ UNCHANGED product
       ELSE /\ product' = r.product
            /\ pc' = "c_save"
            /\ UNCHANGED <<result, store, calls>>
    /\ UNCHANGED <<files, tool, inp, loc, fn_call, fn_ret>>

\* Validation (432-453): a ValueError is returned as a message.
CreateValidate ==
    /\ pc = "c_validate"
    /\ \E r \in {create_validation(loc, product)} :
       IF r.failed
       THEN /\ Finish(Result("str", "validation_error", r.field, NoReport))
            /\ UNCHANGED product
       ELSE /\ product' = r.product
            /\ pc' = "c_save"
            /\ UNCHANGED result
    /\ UNCHANGED <<store, files, tool, inp, loc, calls, fn_call, fn_ret>>

CreateSave ==
    /\ pc = "c_save"
    /\ SaveProduct("c_metafield")
    /\ UNCHANGED <<fn_call, fn_ret>>

CreateMetafield ==
    /\ pc = "c_metafield"
    /\ AttachMetadata
    /\ UNCHANGED <<fn_call, fn_ret>>

(***************************************************************************)
(* Update Product                                                          *)
(***************************************************************************)
\* shopify.Product.find(product_id): the product with that id, if any.
FindById(st, product_id) ==
    IF IsStr(product_id) /\ product_id.s # <<>> /\ AllDigits(product_id.s)
       /\ ToInt(product_id.s) \in DOMAIN st
    THEN st[ToInt(product_id.s)]
    ELSE NoProduct

Found(p) == p # NoProduct

\* The backup file "Product ID <product_id>.csv" and the details in it.
BackupFile(product_id, p) == [name |-> product_id, contents |-> Report(p)]

WriteOutcomes == {"ok", "fail"}

\* resource_manager.write_file(file_name, details): its result is not
\* looked at by the tools; a failed write leaves no file.
WriteFile(file, outcome) ==
    /\ files' = IF outcome = "ok" THEN files \cup {file} ELSE files
    /\ calls' = Append(calls, Call("write_file", "backup", outcome = "ok"))

UpdateArgs ==
    {Args(id, lit, gen) :
        id \in {Str(<<"1">>), Str(<<"3">>)},
        lit \in LiteralSets,
        gen \in [Fields -> BOOLEAN]}

\* _execute is entered (685-697): the product is looked up; None is
\* returned when there is none.
UpdateStart ==
    /\ pc = "idle"
    /\ \E a \in UpdateArgs :
         /\ Cardinality({f \in Fields : Truthy(a[f]) \/ a.generate[f]}) <= MaxTouched
         /\ tool' = "update"
         /\ inp' = a
         /\ loc' = Locals(a)
         /\ calls' = <<Call("find", "product", Found(FindById(store, a.product_id)))>>
         /\ product' = FindById(store, a.product_id)
         /\ IF Found(FindById(store, a.product_id))
            THEN pc' = "u_backup" /\ UNCHANGED result
            ELSE Finish(Result("none", "not_found", "", NoReport))
    /\ UNCHANGED <<store, files, fn_call, fn_ret>>

\* A variant of UpdateBackup that writes the product down with the vendor
\* passed to the invocation.
UpdateBackupWithNewVendor ==
    /\ pc = "u_backup"
    /\ \E outcome \in WriteOutcomes :
         WriteFile(BackupFile(inp.product_id,
                              [product EXCEPT !.vendor = IF Truthy(loc.vendor)
                                                         THEN loc.vendor ELSE @]),
                   outcome)
    /\ pc' = "u_title"
    /\ UNCHANGED <<store, tool, inp, product, loc, result, fn_call, fn_ret>>

\* The backup of the product as found (708-714)
UpdateBackup ==
    /\ pc = "u_backup"
    /\ \E outcome \in WriteOutcomes :
         WriteFile(BackupFile(inp.product_id, product), outcome)
    /\ pc' = "u_title"
    /\ UNCHANGED <<store, tool, inp, product, loc, result, fn_call, fn_ret>>

\* A variant of _generate_value_based_on_flag in which a literal wins over
\* the generate flag.
literal_wins_over_flag(generate_flag, old_value, new_value, reply) ==
    IF ~IsNone(new_value)
    THEN [raised |-> FALSE, value |-> new_value, asked |-> FALSE]
    ELSE IF generate_flag
    THEN [raised |-> generate_info(reply).raised,
          value |-> generate_info(reply).value, asked |-> TRUE]
    ELSE [raised |-> FALSE, value |-> old_value, asked |-> FALSE]

\* _generate_value_based_on_flag (212-228); the task description its callers
\* pass is never empty.  reply is the completion's answer when it is asked.
generate_value_based_on_flag(generate_flag, old_value, new_value, reply) ==
    IF generate_flag
    THEN [raised |-> generate_info(reply).raised,
          value |-> generate_info(reply).value, asked |-> TRUE]
    ELSE [raised |-> FALSE,
          value |-> IF ~IsNone(new_value) THEN new_value ELSE old_value,
          asked |-> FALSE]

\* _generate_price_based_on_flag (231-263)
generate_price_based_on_flag(generate_flag, old_value, new_value, first, second) ==
    IF generate_flag
    THEN generate_specific_price(first, second)
    ELSE [raised |-> FALSE,
          price |-> IF Truthy(new_value) THEN new_value ELSE old_value,
          price_metadata |-> None, asked |-> 0]

\* _generate_vendor_based_on_flag (265-302), after its reads of the product
generate_vendor_based_on_flag(generate_flag, old_value, new_value, first, second) ==
    IF generate_flag
    THEN generate_specific_vendor(first, second)
    ELSE [raised |-> FALSE,
          vendor |-> IF Truthy(new_value) THEN new_value ELSE old_value,
          vendor_metadata |-> None, asked |-> 0]

\* "if not price and product: price = product.price" (540, 577, 614, 278):
\* the product-level price attribute is read when no price is at hand.
\* Whether a product carries one is the shop's choice; reading a missing
\* attribute raises AttributeError.
PriceAttr(l) ==
    IF Truthy(l.price) THEN {l.price_attr}
    ELSE IF l.price_attr = "unread" THEN {"present", "absent"}
    ELSE {l.price_attr}

\* The title (716-744)
UpdateTitle ==
    /\ pc = "u_title"
    /\ IF Truthy(loc.title) \/ inp.generate.title
       THEN \E reply \in Replies.title :
              LET r == generate_value_based_on_flag(inp.generate.title,
                                                    product.title, loc.title, reply)
                  title == Str(normalize_title(r.value.s))
              IN  /\ calls' = IF r.asked
                              THEN calls \o CompletionCalls("title", 1, reply, None)
                              ELSE calls
                  /\ IF r.raised
                     THEN /\ Finish(Raised("ValueError"))
                          /\ UNCHANGED <<loc, product>>
                     ELSE /\ loc' = [loc EXCEPT !.title = title]
                          /\ product' = [product EXCEPT !.title = title]
                          /\ pc' = "u_description"
                          /\ UNCHANGED result
       ELSE /\ pc' = "u_description"
            /\ UNCHANGED <<loc, product, calls, result>>
    /\ UNCHANGED <<store, files, tool, inp, fn_call, fn_ret>>

\* The description (746-766)
UpdateDescription ==
    /\ pc = "u_description"
    /\ IF Truthy(loc.description) \/ inp.generate.description
       THEN \E reply \in Replies.description, attr \in PriceAttr(loc) :
              LET r == generate_value_based_on_flag(
                           inp.generate.description,
                           Str(html_to_plain_text(product.body_html.s)),
                           loc.description, reply)
              IN  IF attr = "absent"
                  THEN /\ Finish(Raised("AttributeError"))
                       /\ UNCHANGED <<loc, calls>>
                  ELSE /\ calls' = IF r.asked
                                   THEN calls \o CompletionCalls("description", 1,
                                                                 reply, None)
                                   ELSE calls
                       /\ IF r.raised
                          THEN /\ Finish(Raised("ValueError"))
                               /\ UNCHANGED loc
                          ELSE /\ loc' = [loc EXCEPT
                                            !.description = Str(wrap_description(r.value.s)),
                                            !.price_attr = attr]
                               /\ pc' = "u_product_type"
                               /\ UNCHANGED result
       ELSE /\ pc' = "u_product_type"
            /\ UNCHANGED <<loc, calls, result>>
    /\ UNCHANGED <<store, files, tool, inp, product, fn_call, fn_ret>>

\* The product type (768-785)
UpdateProductType ==
    /\ pc = "u_product_type"
    /\ IF Truthy(loc.product_type) \/ inp.generate.product_type
       THEN \E reply \in Replies.product_type, attr \in PriceAttr(loc) :
              LET r == generate_value_based_on_flag(inp.generate.product_type,
                                                    product.product_type,
                                                    loc.product_type, reply)
                  t == trim_product_type(r.value.s, MaxFieldLength)
              IN  IF attr = "absent"
                  THEN /\ Finish(Raised("AttributeError"))
                       /\ UNCHANGED <<loc, calls>>
                  ELSE /\ calls' = IF r.asked
                                   THEN calls \o CompletionCalls("product_type", 1,
                                                                 reply, None)
                                   ELSE calls
                       /\ IF r.raised
                          THEN /\ Finish(Raised("ValueError"))
                               /\ UNCHANGED loc
                          ELSE /\ loc' = [loc EXCEPT
                                            !.product_type = t.product_type,
                                            !.type_metadata = t.type_metadata,
                                            !.price_attr = attr]
                               /\ pc' = "u_tags"
                               /\ UNCHANGED result
       ELSE /\ pc' = "u_tags"
            /\ UNCHANGED <<loc, calls, result>>
    /\ UNCHANGED <<store, files, tool, inp, product, fn_call, fn_ret>>

\* The tags (787-800)
UpdateTags ==
    /\ pc = "u_tags"
    /\ IF Truthy(loc.tags) \/ inp.generate.tags
       THEN \E reply \in Replies.tags, attr \in PriceAttr(loc) :
              LET r == generate_value_based_on_flag(inp.generate.tags,
                                                    product.tags, loc.tags, reply)
                  t == trim_tags(r.value.s, MaxFieldLength)
              IN  IF attr = "absent"
                  THEN /\ Finish(Raised("AttributeError"))
                       /\ UNCHANGED <<loc, calls>>
                  ELSE /\ calls' = IF r.asked
                                   THEN calls \o CompletionCalls("tags", 1, reply, None)
                                   ELSE calls
                       /\ IF r.raised
                          THEN /\ Finish(Raised("ValueError"))
                               /\ UNCHANGED loc
                          ELSE /\ loc' = [loc EXCEPT
                                            !.tags = t.tags,
                                            !.tags_metadata = t.tags_metadata,
                                            !.price_attr = attr]
                               /\ pc' = "u_price"
                               /\ UNCHANGED result
       ELSE /\ pc' = "u_price"
            /\ UNCHANGED <<loc, calls, result>>
    /\ UNCHANGED <<store, files, tool, inp, product, fn_call, fn_ret>>

\* The price (802-819)
UpdatePrice ==
    /\ pc = "u_price"
    /\ IF Truthy(loc.price) \/ inp.generate.price
       THEN \E first \in Replies.price, second \in Replies.price_followup :
              LET r == generate_price_based_on_flag(
                           inp.generate.price,
                           IF product.variants # <<>> THEN product.variants[1]
                           ELSE None,
                           loc.price, first, second)
              IN  /\ calls' = IF r.asked > 0
                              THEN calls \o CompletionCalls("price", r.asked,
                                                            first, second)
                              ELSE calls
                  /\ IF r.raised
                     THEN /\ Finish(Raised("ValueError"))
                          /\ UNCHANGED loc
                     ELSE /\ loc' = [loc EXCEPT !.price = r.price,
                                                !.price_metadata = r.price_metadata]
                          /\ pc' = "u_vendor"
                          /\ UNCHANGED result
       ELSE /\ pc' = "u_vendor"
            /\ UNCHANGED <<loc, calls, result>>
    /\ UNCHANGED <<store, files, tool, inp, product, fn_call, fn_ret>>

\* The vendor (821-839)
UpdateVendor ==
    /\ pc = "u_vendor"
    /\ IF Truthy(loc.vendor) \/ inp.generate.vendor
       THEN \E first \in Replies.vendor, second \in Replies.vendor_followup,
               attr \in PriceAttr(loc) :
              LET r == generate_vendor_based_on_flag(inp.generate.vendor,
                                                     product.vendor, loc.vendor,
                                                     first, second)
              IN  IF attr = "absent"
                  THEN /\ Finish(Raised("AttributeError"))
                       /\ UNCHANGED <<loc, calls>>
                  ELSE /\ calls' = IF r.asked > 0
                                   THEN calls \o CompletionCalls("vendor", r.asked,
                                                                 first, second)
                                   ELSE calls
                       /\ IF r.raised
                          THEN /\ Finish(Raised("ValueError"))
                               /\ UNCHANGED loc
                          ELSE /\ loc' = [loc EXCEPT
                                            !.vendor = r.vendor,
                                            !.vendor_metadata = r.vendor_metadata,
                                            !.price_attr = attr]
                               /\ pc' = "u_validate"
                               /\ UNCHANGED result
       ELSE /\ pc' = "u_validate"
            /\ UNCHANGED <<loc, calls, result>>
    /\ UNCHANGED <<store, files, tool, inp, product, fn_call, fn_ret>>

\* re.sub(r'[^\d.]', '', price): only digits and periods are kept.
RECURSIVE KeepDigitsAndPeriods(_)
KeepDigitsAndPeriods(s) ==
    IF s = <<>> THEN <<>>
    ELSE IF Head(s) \in Digits \/ Head(s) = "."
    THEN <<Head(s)>> \o KeepDigitsAndPeriods(Tail(s))
    ELSE KeepDigitsAndPeriods(Tail(s))

\* A variant of update_outcome that assigns every validated value, also for
\* the fields that have no value.
update_outcome_unguarded(l, d, y, g, c, v, p) ==
    IF Truthy(l.description) /\ d.raised
    THEN [outcome |-> "invalid", field |-> "Description", product |-> p]
    ELSE IF Truthy(l.product_type) /\ y.raised
    THEN [outcome |-> "invalid", field |-> "Product type", product |-> p]
    ELSE IF Truthy(l.tags) /\ g.raised
    THEN [outcome |-> "invalid", field |-> "Tags", product |-> p]
    ELSE IF Truthy(l.price) /\ ~IsStr(l.price)
    THEN [outcome |-> "TypeError", field |-> "", product |-> p]
    ELSE IF Truthy(l.price) /\ p.variants # <<>> /\ c.raised
    THEN [outcome |-> "invalid", field |-> "Price", product |-> p]
    ELSE IF Truthy(l.vendor) /\ v.raised
    THEN [outcome |-> "invalid", field |-> "Vendor", product |-> p]
    ELSE [outcome |-> "ok", field |-> "",
          product |->
            [p EXCEPT
               !.body_html = d.value,
               !.product_type = y.value,
               !.tags = g.value,
               !.variants = [i \in 1..Len(@) |-> c.value],
               !.vendor = v.value]]

\* The outcome of the validations of update, given what each gave, in the
\* order of the code; a field is validated only when it has a value.
\* outcome: "ok", "invalid" (a ValueError, returned as a message naming
\* field) or "TypeError" (re.sub on a price that is no string, which nothing
\* catches).
update_outcome(l, d, y, g, c, v, p) ==
    IF Truthy(l.description) /\ d.raised
    THEN [outcome |-> "invalid", field |-> "Description", product |-> p]
    ELSE IF Truthy(l.product_type) /\ y.raised
    THEN [outcome |-> "invalid", field |-> "Product type", product |-> p]
    ELSE IF Truthy(l.tags) /\ g.raised
    THEN [outcome |-> "invalid", field |-> "Tags", product |-> p]
    ELSE IF Truthy(l.price) /\ ~IsStr(l.price)
    THEN [outcome |-> "TypeError", field |-> "", product |-> p]
    ELSE IF Truthy(l.price) /\ p.variants # <<>> /\ c.raised
    THEN [outcome |-> "invalid", field |-> "Price", product |-> p]
    ELSE IF Truthy(l.vendor) /\ v.raised
    THEN [outcome |-> "invalid", field |-> "Vendor", product |-> p]
    ELSE [outcome |-> "ok", field |-> "",
          product |->
            [p EXCEPT
               !.body_html = IF Truthy(l.description) THEN d.value ELSE @,
               !.product_type = IF Truthy(l.product_type) THEN y.value ELSE @,
               !.tags = IF Truthy(l.tags) THEN g.value ELSE @,
               !.variants = IF Truthy(l.price)
                            THEN [i \in 1..Len(@) |-> c.value] ELSE @,
               !.vendor = IF Truthy(l.vendor) THEN v.value ELSE @]]

\* The validations of update (841-865); the price is stripped of all but
\* digits and periods before it is validated.
update_validation(l, p) ==
    update_outcome(
        l,
        validate_field(l.description, MaxDescriptionLength, "html", TRUE),
        validate_field(l.product_type, MaxFieldLength, "string", TRUE),
        validate_field(l.tags, MaxFieldLength, "string", FALSE),
        validate_field(Str(KeepDigitsAndPeriods(l.price.s)), MaxFieldLength,
                       "price", TRUE),
        validate_field(l.vendor, MaxFieldLength, "string", TRUE),
        p)

UpdateValidate ==
    /\ pc = "u_validate"
    /\ \E r \in {update_validation(loc, product)} :
       IF r.outcome = "invalid"
       THEN /\ Finish(Result("str", "validation_error", r.field, NoReport))
            /\ UNCHANGED product
       ELSE IF r.outcome = "TypeError"
       THEN /\ Finish(Raised("TypeError"))
            /\ UNCHANGED product
       ELSE /\ product' = r.product
            /\ pc' = "u_save"
            /\ UNCHANGED result
    /\ UNCHANGED <<store, files, tool, inp, loc, calls, fn_call, fn_ret>>

UpdateSave ==
    /\ pc = "u_save"
    /\ SaveProduct("u_metafield")
    /\ UNCHANGED <<fn_call, fn_ret>>

UpdateMetafield ==
    /\ pc = "u_metafield"
    /\ AttachMetadata
    /\ UNCHANGED <<fn_call, fn_ret>>

(***************************************************************************)
(* Delete Product and Get Product                                          *)
(***************************************************************************)
\* The identifiers the tools are called with: the id of a product, an id
\* no product has, the title of a product (in other letter case), a title
\* no product has.
Identifiers ==
    {Str(<<"1">>), Str(<<"3">>),
     Str(<<"c", "a", "t", " ", "t", "o", "y">>), Str(<<"d", "o", "g">>)}

\* The product with the lowest id among ids.
FirstOf(st, ids) == st[CHOOSE i \in ids : \A j \in ids : i <= j]

\* _get_product_by_identifier (delete 87-94, get 62-69): a numeric
\* identifier is an id; any other is compared with the titles, letter case
\* ignored, and the first product that matches is taken.
get_product_by_identifier(st, product_identifier) ==
    IF product_identifier.s # <<>> /\ AllDigits(product_identifier.s)
    THEN FindById(st, product_identifier)
    ELSE LET hits == {i \in DOMAIN st :
                         Lower(st[i].title.s) = Lower(product_identifier.s)}
         IN  IF hits = {} THEN NoProduct ELSE FirstOf(st, hits)

\* product.destroy()
Destroyed(st, p) == [i \in DOMAIN st \ {p.id} |-> st[i]]

\* _execute of delete is entered (55-59, 78-81): the product is looked up;
\* when there is none a ValueError instance is returned.
DeleteStart ==
    /\ pc = "idle"
    /\ \E id \in Identifiers :
         LET p == get_product_by_identifier(store, id) IN
         /\ tool' = "delete"
         /\ inp' = Args(id, NoLiterals, NoFlags)
         /\ loc' = Locals(NoArgs)
         /\ product' = p
         /\ calls' = <<Call("find", "product", Found(p))>>
         /\ IF Found(p)
            THEN pc' = "d_destroy" /\ UNCHANGED result
            ELSE Finish(Result("exception_object", "ValueError", "", NoReport))
    /\ UNCHANGED <<store, files, fn_call, fn_ret>>

\* The product is destroyed (60-62), its details read before.
DeleteDestroy ==
    /\ pc = "d_destroy"
    /\ store' = Destroyed(store, product)
    /\ calls' = Append(calls, Call("destroy", "product", TRUE))
    /\ pc' = "d_backup"
    /\ UNCHANGED <<files, tool, inp, product, loc, result, fn_call, fn_ret>>

\* The backup is written and the message returned (63-76).
DeleteBackup ==
    /\ pc = "d_backup"
    /\ \E outcome \in WriteOutcomes :
         WriteFile(BackupFile(inp.product_id, product), outcome)
    /\ Finish(Result("str", "success", "", Report(product)))
    /\ UNCHANGED <<store, tool, inp, product, loc, fn_call, fn_ret>>

\* _execute of get (46-56): the details of the product, or None.
GetProduct ==
    /\ pc = "idle"
    /\ \E id \in Identifiers :
         LET p == get_product_by_identifier(store, id) IN
         /\ tool' = "get"
         /\ inp' = Args(id, NoLiterals, NoFlags)
         /\ loc' = Locals(NoArgs)
         /\ product' = p
         /\ calls' = <<Call("find", "product", Found(p))>>
         /\ IF Found(p)
            THEN Finish(Result("str", "success", "", Report(p)))
            ELSE Finish(Result("none", "not_found", "", NoReport))
    /\ UNCHANGED <<store, files, fn_call, fn_ret>>

(***************************************************************************)
(* The tools: one invocation against the shop                              *)
(***************************************************************************)
NoCall == [fn |-> "none", tags_string |-> <<>>, max_length |-> 0]

NoRet == [done |-> FALSE, tags |-> None, tags_metadata |-> None,
          kept |-> <<>>, overflow |-> <<>>]

Init ==
    /\ store = InitialStore
    /\ files = {}
    /\ pc = "idle"
    /\ tool = "none"
    /\ inp = NoArgs
    /\ product = NoProduct
    /\ loc = Locals(NoArgs)
    /\ calls = <<>>
    /\ result = Running
    /\ fn_call = NoCall
    /\ fn_ret = NoRet

Next ==
    \/ CreateStart \/ CreateTitle \/ CreateDescription \/ CreateProductType
    \/ CreateTags \/ CreatePrice \/ CreateVendor \/ CreateValidate
    \/ CreateSave \/ CreateMetafield
    \/ UpdateStart \/ UpdateBackup \/ UpdateTitle \/ UpdateDescription
    \/ UpdateProductType \/ UpdateTags \/ UpdatePrice \/ UpdateVendor
    \/ UpdateValidate \/ UpdateSave \/ UpdateMetafield
    \/ DeleteStart \/ DeleteDestroy \/ DeleteBackup
    \/ GetProduct

Spec == Init /\ [][Next]_vars

(***************************************************************************)
(* trim_tags on its own                                                    *)
(***************************************************************************)
\* The longest tags string tried and the largest budget tried.
MaxTagsLen == 5

MaxBudget == 4

TagSymbols == {"a", "\n", ".", " ", "1"}

RECURSIVE SeqsUpTo(_, _)
SeqsUpTo(S, n) ==
    IF n = 0 THEN {<<>>}
    ELSE LET shorter == SeqsUpTo(S, n - 1)
         IN  shorter \cup {Append(q, c) : q \in {r \in shorter : Len(r) = n - 1}, c \in S}

InitTags ==
    /\ store = InitialStore
    /\ files = {}
    /\ pc = "idle"
    /\ tool = "none"
    /\ inp = NoArgs
    /\ product = NoProduct
    /\ loc = Locals(NoArgs)
    /\ calls = <<>>
    /\ result = Running
    /\ fn_call \in {[fn |-> "trim_tags", tags_string |-> q, max_length |-> m] :
                       q \in SeqsUpTo(TagSymbols, MaxTagsLen), m \in 0..MaxBudget}
    /\ fn_ret = NoRet

TrimTags ==
    /\ fn_call.fn = "trim_tags"
    /\ ~fn_ret.done
    /\ fn_ret' = [done |-> TRUE] @@ trim_tags(fn_call.tags_string, fn_call.max_length)
    /\ UNCHANGED <<fn_call, toolVars>>

NextTags == TrimTags

SpecTags == InitTags /\ [][NextTags]_vars

(***************************************************************************)
(* The generation and validation functions on their own                    *)
(***************************************************************************)
\* The longest first reply made of PriceSymbols that is tried.
MaxReplyLen == 4

PriceSymbols == {"1", "2", "$", " ", "-", ",", "a"}

\* Replies of the completion collaborator to a price prompt that are longer.
Reply_dollar == <<"$", "1", "9", ".", "9", "9">>

Reply_between == <<"b", "e", "t", "w", "e", "e", "n", " ", "1", "0", " ", "a", "n", "d", " ", "2", "0">>

Reply_usd == <<"1", "9", ".", "9", "9", " ", "U", "S", "D">>

Reply_decimal_range == <<"1", "0", ".", "5", "0", " ", "-", " ", "2", "0", ".", "5", "0">>

Reply_six_lines == <<"1", "\n", "2", "\n", "3", "\n", "4", "\n", "5", "\n", "6">>

PriceReplies ==
    {None} \cup {Str(q) : q \in SeqsUpTo(PriceSymbols, MaxReplyLen) \ {<<>>}}
    \cup {Str(Reply_dollar), Str(Reply_between), Str(Reply_usd),
          Str(Reply_decimal_range), Str(Reply_six_lines)}

PriceFollowups == {None, Str(<<"8">>), Str(<<"$", "8", ".", "5", "0">>),
                   Str(<<"t", "e", "n">>)}

PriceCalls ==
    {[fn |-> "generate_specific_price", first |-> f, second |-> g] :
        f \in PriceReplies, g \in PriceFollowups}

\* Replies to a vendor prompt: every short one made of VendorSymbols and
\* one of six words.
VendorSymbols == {"a", "b", ",", " "}

Reply_six_words == <<"a", " ", "b", " ", "a", " ", "b", " ", "a", " ", "b">>

VendorReplies ==
    {None} \cup {Str(q) : q \in SeqsUpTo(VendorSymbols, MaxReplyLen) \ {<<>>}}
    \cup {Str(Reply_six_words)}

VendorFollowups ==
    {None, Str(<<"z", "e", "d">>), Str(<<"z", "e", "d", ",", "n", "o", "v", "a">>),
     Str(Reply_six_words)}

VendorCalls ==
    {[fn |-> "generate_specific_vendor", first |-> f, second |-> g] :
        f \in VendorReplies, g \in VendorFollowups}

\* The longest price value made of ValueSymbols that is validated, and the
\* most elements a description validated is made of.
MaxValueLen == 3

MaxElements == 2

ValueSymbols == {"0", "5", "-", ".", "x"}

\* The prices validated: strings, and floats as price generation gives them.
PriceValues ==
    {Float(0 - 500), Float(0), Float(750)}
    \cup {Str(q) : q \in SeqsUpTo(ValueSymbols, MaxValueLen) \ {<<>>}}

\* The descriptions validated are made of these pieces.
HtmlElements ==
    {<<"x">>, <<" ">>, <<"<p>", "x", "</p>">>, <<"<p>", " ", "</p>">>,
     <<"<p>", "</p>">>, <<"<div>", "x", "</div>">>}

RECURSIVE HtmlUpTo(_)
HtmlUpTo(n) ==
    IF n = 0 THEN {<<>>}
    ELSE HtmlUpTo(n - 1) \cup {q \o e : q \in HtmlUpTo(n - 1), e \in HtmlElements}

HtmlValues == {Str(q) : q \in HtmlUpTo(MaxElements)}

\* The lengths allowed that are tried for a description.
HtmlLengths == {2, MaxDescriptionLength}

ValidateCalls ==
    {[fn |-> "validate_field", value |-> x, max_length |-> MaxFieldLength,
      field_type |-> "price", required |-> r] :
        x \in PriceValues, r \in BOOLEAN}
    \cup {[fn |-> "validate_field", value |-> x, max_length |-> m,
           field_type |-> "html", required |-> r] :
             x \in HtmlValues, m \in HtmlLengths, r \in BOOLEAN}

InitFunctions ==
    /\ store = InitialStore
    /\ files = {}
    /\ pc = "idle"
    /\ tool = "none"
    /\ inp = NoArgs
    /\ product = NoProduct
    /\ loc = Locals(NoArgs)
    /\ calls = <<>>
    /\ result = Running
    /\ \/ fn_call \in PriceCalls
       \/ fn_call \in VendorCalls
       \/ fn_call \in ValidateCalls
    /\ fn_ret = [done |-> FALSE]

\* _generate_specific_price is called and returns or raises.
GenerateSpecificPrice ==
    /\ fn_call.fn = "generate_specific_price"
    /\ ~fn_ret.done
    /\ \E r \in {generate_specific_price(fn_call.first, fn_call.second)} :
         /\ fn_ret' = [done |-> TRUE, raised |-> r.raised, price |-> r.price,
                       price_metadata |-> r.price_metadata]
         /\ calls' = CompletionCalls("price", r.asked, fn_call.first, fn_call.second)
    /\ UNCHANGED <<store, files, pc, tool, inp, product, loc, result, fn_call>>

\* _generate_specific_vendor is called and returns or raises.
GenerateSpecificVendor ==
    /\ fn_call.fn = "generate_specific_vendor"
    /\ ~fn_ret.done
    /\ \E r \in {generate_specific_vendor(fn_call.first, fn_call.second)} :
         /\ fn_ret' = [done |-> TRUE, raised |-> r.raised, vendor |-> r.vendor,
                       vendor_metadata |-> r.vendor_metadata]
         /\ calls' = CompletionCalls("vendor", r.asked, fn_call.first, fn_call.second)
    /\ UNCHANGED <<store, files, pc, tool, inp, product, loc, result, fn_call>>

\* validate_field is called and returns or raises.
ValidateField ==
    /\ fn_call.fn = "validate_field"
    /\ ~fn_ret.done
    /\ \E r \in {validate_field(fn_call.value, fn_call.max_length,
                                fn_call.field_type, fn_call.required)} :
         fn_ret' = [done |-> TRUE, raised |-> r.raised, reason |-> r.reason,
                    value |-> r.value]
    /\ UNCHANGED <<fn_call, toolVars>>

NextFunctions == GenerateSpecificPrice \/ GenerateSpecificVendor \/ ValidateField

SpecFunctions == InitFunctions /\ [][NextFunctions]_vars

(***************************************************************************)
(* The shaping of title, product type and description on its own           *)
(***************************************************************************)
\* The longest title, product type and description reply made of the
\* symbols below that is tried.
MaxTitleLen == 5

MaxTypeLen == 4

MaxDescriptionReplyLen == 5

TitleSymbols == {"a", "t", "O", " ", "x"}

Title_cat_hat ==
    <<"t", "h", "e", " ", "c", "a", "t", " ", "a", "n", "d", " ",
      "t", "h", "e", " ", "h", "a", "t">>

Title_hello_world == <<"H", "e", "l", "l", "o", " ", "W", "o", "r", "l", "d">>

TitleCalls ==
    {[fn |-> "normalize_title", title |-> q] :
        q \in (SeqsUpTo(TitleSymbols, MaxTitleLen) \ {<<>>})
              \cup {Title_cat_hat, Title_hello_world}}

TypeSymbols == {"a", "b"}

TypeCalls ==
    {[fn |-> "trim_product_type", product_type |-> q, max_length |-> m] :
        q \in SeqsUpTo(TypeSymbols, MaxTypeLen) \cup {LongType},
        m \in (0..MaxTypeLen) \cup {MaxFieldLength}}

DescriptionSymbols == {"x", "y", " ", "\n"}

DescriptionCalls ==
    {[fn |-> "generate_description", reply |-> Str(q)] :
        q \in SeqsUpTo(DescriptionSymbols, MaxDescriptionReplyLen) \ {<<>>}}

InitText ==
    /\ store = InitialStore
    /\ files = {}
    /\ pc = "idle"
    /\ tool = "none"
    /\ inp = NoArgs
    /\ product = NoProduct
    /\ loc = Locals(NoArgs)
    /\ calls = <<>>
    /\ result = Running
    /\ \/ fn_call \in TitleCalls
       \/ fn_call \in TypeCalls
       \/ fn_call \in DescriptionCalls
    /\ fn_ret = [done |-> FALSE]

\* The title is normalised (create 383-391, update 733-741).
NormalizeTitle ==
    /\ fn_call.fn = "normalize_title"
    /\ ~fn_ret.done
    /\ fn_ret' = [done |-> TRUE, title |-> normalize_title(fn_call.title)]
    /\ UNCHANGED <<fn_call, toolVars>>

\* trim_product_type is called and returns.
TrimProductType ==
    /\ fn_call.fn = "trim_product_type"
    /\ ~fn_ret.done
    /\ \E r \in {trim_product_type(fn_call.product_type, fn_call.max_length)} :
         fn_ret' = [done |-> TRUE, product_type |-> r.product_type,
                    type_metadata |-> r.type_metadata]
    /\ UNCHANGED <<fn_call, toolVars>>

\* The description is generated (create 408-415): the reply is asked for
\* and turned into paragraphs.
GenerateDescription ==
    /\ fn_call.fn = "generate_description"
    /\ ~fn_ret.done
    /\ \E g \in {generate_info(fn_call.reply)} :
         /\ calls' = CompletionCalls("description", 1, fn_call.reply, None)
         /\ fn_ret' = IF g.raised
                      THEN [done |-> TRUE, raised |-> TRUE, description |-> <<>>]
                      ELSE [done |-> TRUE, raised |-> FALSE,
                            description |-> wrap_description(g.value.s)]
    /\ UNCHANGED <<store, files, pc, tool, inp, product, loc, result, fn_call>>

NextText == NormalizeTitle \/ TrimProductType \/ GenerateDescription

SpecText == InitText /\ [][NextText]_vars

(***************************************************************************)
(* _get_all_products: the listing of the whole catalog, page by page       *)
(***************************************************************************)
\* limit = 100
PageLimit == 100

\* The largest catalog listed.
MaxCatalog == 201

\* The ids of a catalog are the multiples of a step.
IdSteps == {1, 3}

TopId == (MaxCatalog + 1) * 3

\* A product of a catalog that is listed.
Listed(id) == Product(id, Str(<<"x">>), None, None, None, None, <<>>, <<>>)

Catalogs ==
    {[i \in {k * step : k \in 1..n} |-> Listed(i)] :
        n \in 0..MaxCatalog, step \in IdSteps}

\* shopify.Product.find(since_id=since_id, limit=limit): the first limit
\* products with an id above since_id, in ascending order of id.
find_page(st, since_id, limit) ==
    LET ids == SelectSeq([k \in 1..TopId |-> k],
                         LAMBDA k : k \in DOMAIN st /\ k > since_id)
        n == IF Len(ids) < limit THEN Len(ids) ELSE limit
    IN  [j \in 1..n |-> st[ids[j]]]

\* One page request, as the shop saw it.
PageCall(since_id, returned) ==
    [c |-> "find", a |-> "page", ok |-> TRUE,
     since_id |-> since_id, returned |-> returned]

\* A variant of last_page: only an empty page is the last.
empty_page(products_page, limit) == Len(products_page) = 0

\* len(products_page) < limit: the page is the last one.
last_page(products_page, limit) == Len(products_page) < limit

\* A variant of next_since_id that moves on by the size of a page.
since_id_plus_limit(products_page, since_id, limit) == since_id + limit

\* since_id = products_page[-1].id
next_since_id(products_page, since_id, limit) ==
    products_page[Len(products_page)].id

InitPages ==
    /\ store \in Catalogs
    /\ files = {}
    /\ pc = "idle"
    /\ tool = "none"
    /\ inp = NoArgs
    /\ product = NoProduct
    /\ loc = Locals(NoArgs)
    /\ calls = <<>>
    /\ result = Running
    /\ fn_call = NoCall
    /\ fn_ret = NoRet

\* _get_all_products is entered (81-84).
ListStart ==
    /\ pc = "idle"
    /\ tool' = "get_all"
    /\ loc' = [limit |-> PageLimit, get_next_page |-> TRUE, since_id |-> 0,
               products |-> <<>>]
    /\ pc' = "l_page"
    /\ UNCHANGED <<store, files, inp, product, calls, result, fn_call, fn_ret>>

\* One turn of the loop (86-94); after the last page the list is returned.
ListPage ==
    /\ pc = "l_page"
    /\ loc.get_next_page
    /\ \E products_page \in {find_page(store, loc.since_id, loc.limit)} :
         /\ calls' = Append(calls, PageCall(loc.since_id, Len(products_page)))
         /\ IF last_page(products_page, loc.limit)
            THEN /\ loc' = [loc EXCEPT !.products = @ \o products_page,
                                       !.get_next_page = FALSE]
                 /\ pc' = "done"
            ELSE /\ loc' = [loc EXCEPT
                              !.products = @ \o products_page,
                              !.since_id = next_since_id(products_page,
                                                         loc.since_id, loc.limit)]
                 /\ pc' = "l_page"
    /\ UNCHANGED <<store, files, tool, inp, product, result, fn_call, fn_ret>>

NextPages == ListStart \/ ListPage

SpecPages == InitPages /\ [][NextPages]_vars

\* The loop runs on: a turn that can be taken is taken.
SpecPagesFair == SpecPages /\ WF_vars(NextPages)

(***************************************************************************)
(* Get All Products                                                        *)
(***************************************************************************)
\* The most products a catalog that is reported on holds.
MaxListed == 3

AntFarm ==
    Product(3, Str(<<"A", "n", "t", " ", "F", "a", "r", "m">>),
            Str(<<"<p>", "b", "u", "s", "y", "</p>">>),
            Str(<<"t", "o", "y">>), Str(<<"n", "o", "v", "a">>),
            Str(<<"k", "i", "d", "s", ",", " ", "R", "e", "d">>),
            <<Str(<<"5", ".", "0", "0">>)>>, <<>>)

ListedKinds == {CatToy, DogBed, AntFarm}

\* The catalogs reported on: ids 1..n, each product of one of the kinds.
SmallCatalogs ==
    UNION {{[i \in 1..n |-> [kind[i] EXCEPT !.id = i]] :
                kind \in [1..n -> ListedKinds]} : n \in 0..MaxListed}

\* The characters of titles, in the order of their code points.
CodeOrder == <<" ">> \o UpperLetters \o LowerLetters

CodePoint(c) == CHOOSE i \in 1..Len(CodeOrder) : CodeOrder[i] = c

\* a < b for two Python strings
StrLess(a, b) ==
    \E k \in 1..Len(b) :
        /\ k <= Len(a) + 1
        /\ \A j \in 1..(k - 1) : a[j] = b[j]
        /\ (k = Len(a) + 1 \/ CodePoint(a[k]) < CodePoint(b[k]))

\* _get_all_products: the loop over the pages, run to its end.
RECURSIVE get_all_products(_, _, _)
get_all_products(st, since_id, limit) ==
    LET products_page == find_page(st, since_id, limit)
    IN  IF last_page(products_page, limit)
        THEN [products |-> products_page,
              calls |-> <<PageCall(since_id, Len(products_page))>>]
        ELSE LET rest == get_all_products(
                             st, next_since_id(products_page, since_id, limit), limit)
             IN  [products |-> products_page \o rest.products,
                  calls |-> <<PageCall(since_id, Len(products_page))>> \o rest.calls]

NotAvailable == Str(<<"N", "/", "A">>)

\* _generate_product_details with the default output: id, title and the
\* price of the first variant, "N/A" without one.
generate_product_details(p) ==
    [product_id |-> p.id, title |-> p.title,
     price |-> IF p.variants # <<>> THEN p.variants[1] ELSE NotAvailable]

\* list.sort(key, reverse): less[i][j] says that the key of row i is below
\* the key of row j; the sort is stable, also when reversed.
sorted_rows(rows, less, reverse) ==
    LET n == Len(rows)
        Before(i, j) == IF reverse THEN less[j][i] ELSE less[i][j]
        rank(i) == Cardinality({j \in 1..n :
                                   Before(j, i) \/ (~Before(i, j) /\ j < i)})
    IN  [k \in 1..n |-> rows[CHOOSE i \in 1..n : rank(i) = k - 1]]

TitleLess(x, y) == StrLess(x.title.s, y.title.s)

PriceLess(x, y) == ToFloat(x.price).v < ToFloat(y.price).v

\* The rows after "Apply sorting" (135-147), parts being sortby.split('-');
\* the keys of an option that is neither alpha nor price are all "".
apply_sorting(rows, parts) ==
    IF parts[1] = <<"a", "l", "p", "h", "a">>
    THEN sorted_rows(rows,
                     [i \in 1..Len(rows) |->
                        [j \in 1..Len(rows) |-> TitleLess(rows[i], rows[j])]],
                     parts[2] = <<"d", "e", "s", "c">>)
    ELSE IF parts[1] = <<"p", "r", "i", "c", "e">>
    THEN sorted_rows(rows,
                     [i \in 1..Len(rows) |->
                        [j \in 1..Len(rows) |-> PriceLess(rows[i], rows[j])]],
                     parts[2] = <<"d", "e", "s", "c">>)
    ELSE rows

Sort_default == <<"d", "e", "f", "a", "u", "l", "t">>

\* The sort options the description of the tool names (36-48).
SortOptions ==
    {Sort_default,
     <<"a", "l", "p", "h", "a", "-", "a", "s", "c">>,
     <<"a", "l", "p", "h", "a", "-", "d", "e", "s", "c">>,
     <<"p", "r", "i", "c", "e", "-", "a", "s", "c">>,
     <<"p", "r", "i", "c", "e", "-", "d", "e", "s", "c">>,
     <<"b", "e", "s", "t", "-", "s", "e", "l", "l", "i", "n", "g">>,
     <<"c", "r", "e", "a", "t", "e", "d">>,
     <<"c", "r", "e", "a", "t", "e", "d", "-", "d", "e", "s", "c">>,
     <<"m", "a", "n", "u", "a", "l">>}

\* _pretty_product_info(products, output, sortby) (122-166).  raised:
\* "none", "ValueError" (sortby does not split in two; a price that is no
\* number) or "IndexError" (no row to take the headers from).
pretty_product_info(products, sortby, parts) ==
    LET rows == [i \in 1..Len(products) |-> generate_product_details(products[i])]
    IN  IF sortby # Sort_default /\ Len(parts) # 2
        THEN [raised |-> "ValueError", rows |-> <<>>]
        ELSE IF /\ sortby # Sort_default
                /\ parts[1] = <<"p", "r", "i", "c", "e">>
                /\ \E i \in 1..Len(rows) : ~ToFloat(rows[i].price).ok
        THEN [raised |-> "ValueError", rows |-> <<>>]
        ELSE IF rows = <<>>
        THEN [raised |-> "IndexError", rows |-> <<>>]
        ELSE [raised |-> "none",
              rows |-> IF sortby = Sort_default THEN rows
                       ELSE apply_sorting(rows, parts)]

\* What a list tool gives back: the report "Found n products" or the
\* exception that left it.
Listing(r) ==
    IF r.raised = "none" THEN Result("str", "found", "", r.rows)
    ELSE Raised(r.raised)

InitCatalog ==
    /\ store \in SmallCatalogs
    /\ files = {}
    /\ pc = "idle"
    /\ tool = "none"
    /\ inp = NoArgs
    /\ product = NoProduct
    /\ loc = Locals(NoArgs)
    /\ calls = <<>>
    /\ result = Running
    /\ fn_call = NoCall
    /\ fn_ret = NoRet

\* Get All Products: _execute is entered (54-67); no sortby is "default".
GetAllStart ==
    /\ pc = "idle"
    /\ \E given \in BOOLEAN, sortby \in SortOptions :
         inp' = [sortby |-> IF given THEN sortby ELSE Sort_default]
    /\ tool' = "get_all_products"
    /\ pc' = "g_list"
    /\ UNCHANGED <<store, files, product, loc, calls, result, fn_call, fn_ret>>

\* The catalog is fetched (69).
GetAllList ==
    /\ pc = "g_list"
    /\ \E r \in {get_all_products(store, 0, PageLimit)} :
         /\ loc' = [products |-> r.products]
         /\ calls' = calls \o r.calls
    /\ pc' = "g_report"
    /\ UNCHANGED <<store, files, tool, inp, product, result, fn_call, fn_ret>>

\* The report is made and returned (70-73).
GetAllReport ==
    /\ pc = "g_report"
    /\ \E r \in {pretty_product_info(loc.products, inp.sortby,
                                     Split(inp.sortby, "-"))} :
         Finish(Listing(r))
    /\ UNCHANGED <<store, files, tool, inp, product, loc, calls, fn_call, fn_ret>>

(***************************************************************************)
(* Search Products and Bulk Update Products                                *)
(***************************************************************************)
\* The search criteria tried; None is a criterion not given.
Criteria ==
    {[title |-> t, product_type |-> y, vendor |-> v, tags |-> g] :
        t \in {None, Str(<<"t", "o", "y">>), Str(<<"F", "A", "R", "M">>)},
        y \in {None, Str(<<"T", "o", "y">>)},
        v \in {None, Str(<<"a", "c", "m", "e">>)},
        g \in {None, Str(<<"r", "e", "d">>), Str(<<"R", "E", "D">>),
               Str(<<"k", "i", "d", "s", ",", " ", "r", "e", "d">>)}}

\* needle in hay, for two Python strings
Within(needle, hay) ==
    \E i \in 0..(Len(hay) - Len(needle)) :
        SubSeq(hay, i + 1, i + Len(needle)) = needle

\* x.lower() if x else None
LowerOrNone(x) == IF Truthy(x) THEN Str(Lower(x.s)) ELSE None

\* Search: [tag.strip() for tag in tags.split(",")] (search_products.py 77-78)
search_tags(tags) ==
    LET parts == Split(tags, ",") IN [i \in 1..Len(parts) |-> Strip(parts[i])]

\* Bulk update: [tag.strip().lower() for tag in ...] (bulk_update.py 157-158)
bulk_tags(tags) ==
    LET parts == Split(tags, ",") IN [i \in 1..Len(parts) |-> Lower(Strip(parts[i]))]

\* The test of the filter loop (search_products.py 94-101, bulk_update.py
\* 176-183); tags is None or the list of tags asked for.
matches(p, lowercase_title, lowercase_product_type, lowercase_vendor, given, tags) ==
    /\ ~Truthy(lowercase_title) \/ Within(lowercase_title.s, Lower(p.title.s))
    /\ \/ ~Truthy(lowercase_product_type)
       \/ Within(lowercase_product_type.s, Lower(p.product_type.s))
    /\ ~Truthy(lowercase_vendor) \/ Within(lowercase_vendor.s, Lower(p.vendor.s))
    /\ ~given \/ \A i \in 1..Len(tags) : Within(tags[i], Lower(p.tags.s))

\* The products of a list that pass the test, in the order of the list.
matching_products(products, c, tags) ==
    SelectSeq(products,
              LAMBDA p : matches(p, LowerOrNone(c.title), LowerOrNone(c.product_type),
                                 LowerOrNone(c.vendor), Truthy(c.tags), tags))

NoCriterion(c) ==
    IsNone(c.title) /\ IsNone(c.product_type) /\ IsNone(c.vendor) /\ IsNone(c.tags)

\* Search Products: _execute is entered (66-88); without a criterion it
\* raises ValueError.
SearchStart ==
    /\ pc = "idle"
    /\ tool' = "search_products"
    /\ \E c \in Criteria :
         /\ inp' = c
         /\ IF NoCriterion(c) THEN Finish(Raised("ValueError"))
            ELSE pc' = "s_list" /\ UNCHANGED result
    /\ UNCHANGED <<store, files, product, loc, calls, fn_call, fn_ret>>

\* The catalog is fetched and filtered (90-102).
SearchList ==
    /\ pc = "s_list"
    /\ \E r \in {get_all_products(store, 0, PageLimit)} :
         /\ loc' = [products |-> r.products,
                    matching |-> matching_products(
                                     r.products, inp,
                                     IF Truthy(inp.tags) THEN search_tags(inp.tags.s)
                                     ELSE <<>>)]
         /\ calls' = calls \o r.calls
    /\ pc' = "s_report"
    /\ UNCHANGED <<store, files, tool, inp, product, result, fn_call, fn_ret>>

\* The report of the matching products is made and returned (104-108).
SearchReport ==
    /\ pc = "s_report"
    /\ \E r \in {pretty_product_info(loc.matching, Sort_default, <<Sort_default>>)} :
         Finish(Listing(r))
    /\ UNCHANGED <<store, files, tool, inp, product, loc, calls, fn_call, fn_ret>>

\* The literals a bulk update passes on to update.
BulkLiterals ==
    {[NoLiterals EXCEPT !.title = Lit_title], [NoLiterals EXCEPT !.vendor = Lit_vendor]}

\* Bulk Update Products: _execute is entered (110-166); without criteria it
\* raises ValueError.
BulkStart ==
    /\ pc = "idle"
    /\ tool' = "bulk_update"
    /\ \E c \in Criteria, lit \in BulkLiterals :
         /\ inp' = [criteria |-> c, update |-> Args(None, lit, NoFlags)]
         /\ IF NoCriterion(c) THEN Finish(Raised("ValueError"))
            ELSE pc' = "b_list" /\ UNCHANGED result
    /\ UNCHANGED <<store, files, product, loc, calls, fn_call, fn_ret>>

\* The update tool is made, the catalog fetched and filtered (168-184).
BulkList ==
    /\ pc = "b_list"
    /\ \E r \in {get_all_products(store, 0, PageLimit)} :
         /\ loc' = [products |-> r.products,
                    matching |-> matching_products(
                                     r.products, inp.criteria,
                                     IF Truthy(inp.criteria.tags)
                                     THEN bulk_tags(inp.criteria.tags.s)
                                     ELSE <<>>),
                    product_changes |-> <<>>,
                    at |-> 1]
         /\ calls' = calls \o r.calls
    /\ pc' = "b_update"
    /\ UNCHANGED <<store, files, tool, inp, product, result, fn_call, fn_ret>>

\* The fields of a product the change table compares (188-193, 214-219).
Details(p) ==
    [title |-> p.title,
     description |-> Str(html_to_plain_text(p.body_html.s)),
     product_type |-> p.product_type, vendor |-> p.vendor, tags |-> p.tags,
     price |-> IF p.variants # <<>> THEN p.variants[1] ELSE None]

\* One turn of the loop over the matching products (186-236).  The update
\* tool was made without arguments (169), so its resource_manager is None
\* (update_product.py 106): for a product it finds, its call of write_file
\* (update_product.py 714) raises AttributeError, which nothing catches.
\* For a product it does not find it returns None, and the details read
\* again from the product object of the list are the ones read before.
BulkUpdate ==
    /\ pc = "b_update"
    /\ loc.at <= Len(loc.matching)
    /\ LET p == loc.matching[loc.at]
           old == Details(p)
           found == p.id \in DOMAIN store
           new == Details(p)
       IN  /\ calls' = calls \o <<[c |-> "update", a |-> "product", ok |-> FALSE,
                                   product_id |-> p.id, args |-> inp.update],
                                  Call("find", "product", found)>>
           /\ IF found
              THEN /\ Finish(Raised("AttributeError"))
                   /\ UNCHANGED loc
              ELSE /\ loc' = [loc EXCEPT
                                !.at = @ + 1,
                                !.product_changes =
                                    IF old # new
                                    THEN Append(@, [product_id |-> p.id,
                                                    old |-> old, new |-> new])
                                    ELSE @]
                   /\ UNCHANGED <<pc, result>>
    /\ UNCHANGED <<store, files, tool, inp, product, fn_call, fn_ret>>

\* After the loop (238-253): the change table, or "No updates were made."
BulkReport ==
    /\ pc = "b_update"
    /\ loc.at > Len(loc.matching)
    /\ IF loc.product_changes # <<>>
       THEN Finish(Result("str", "updated", "", loc.product_changes))
       ELSE Finish(Result("str", "no_updates", "", <<>>))
    /\ UNCHANGED <<store, files, tool, inp, product, loc, calls, fn_call, fn_ret>>

NextCatalog ==
    \/ GetAllStart \/ GetAllList \/ GetAllReport
    \/ SearchStart \/ SearchList \/ SearchReport
    \/ BulkStart \/ BulkList \/ BulkUpdate \/ BulkReport

SpecCatalog == InitCatalog /\ [][NextCatalog]_vars

(***************************************************************************)
(* What the tools are expected to do                                       *)
(***************************************************************************)
\* The positions in calls of the calls of kind c.
CallsOf(c) == {i \in 1..Len(calls) : calls[i].c = c}

\* The product save of the invocation succeeded.
ProductSaved == \E i \in CallsOf("save") : calls[i].a = "product" /\ calls[i].ok

InCreateOrUpdate == tool \in {"create", "update"}

\* C1: in create and update, an invocation that ends with a validation error
\* has issued no save and no add-metafield call, and the shop is as it was
\* before the invocation: nothing is persisted.
C1_ValidationFailurePersistsNothing ==
    (InCreateOrUpdate /\ result.tag = "validation_error")
        => /\ CallsOf("save") = {}
           /\ CallsOf("add_metafield") = {}
           /\ store = InitialStore

\* C1, its case: an update whose description passed validation and whose
\* vendor failed it.
C1_Witness ==
    /\ tool = "update"
    /\ pc = "done"
    /\ result.tag = "validation_error"
    /\ result.field = "Vendor"
    /\ Truthy(loc.description)

\* The overflow notes of the invocation in the order type, vendor, tags,
\* price, the empty ones left out.
OverflowNotes ==
    LET all == <<[label |-> "Product Type Information: ", text |-> loc.type_metadata],
                 [label |-> "Vendor Information: ", text |-> loc.vendor_metadata],
                 [label |-> "Additional Tags: ", text |-> loc.tags_metadata],
                 [label |-> "Pricing Information: ", text |-> loc.price_metadata]>>
        kept == SelectSeq(all, LAMBDA n : Truthy(n.text))
    IN  [i \in 1..Len(kept) |-> [label |-> kept[i].label, text |-> kept[i].text.s]]

\* C2: when a create or update whose product save succeeded is over, the
\* product carries one 'ai_results' metafield holding every non-empty
\* overflow note, labelled, in the order type, vendor, tags, price, if there
\* is such a note, and no such metafield if there is none; add_metafield is
\* called once in the first case and never in the second, and a metafield
\* save that succeeded put the metafield into the shop.
C2_OverflowNotesInOneMetafield ==
    (InCreateOrUpdate /\ pc = "done" /\ ProductSaved)
        => /\ product.metafields =
                 IF OverflowNotes = <<>> THEN <<>>
                 ELSE <<[namespace |-> "ai_metadata", key |-> "ai_results",
                         value |-> OverflowNotes]>>
           /\ Cardinality(CallsOf("add_metafield")) =
                 IF OverflowNotes = <<>> THEN 0 ELSE 1
           /\ (\E i \in CallsOf("save") : calls[i].a = "metafield" /\ calls[i].ok)
                 => store[product.id].metafields = product.metafields

\* C2, its case: a create that ended with a type note, a tags note and a
\* price note attached.
C2_Witness ==
    /\ tool = "create"
    /\ pc = "done"
    /\ result.tag = "success"
    /\ Truthy(loc.type_metadata)
    /\ Truthy(loc.tags_metadata)
    /\ Truthy(loc.price_metadata)
    /\ Len(product.metafields) = 1
    /\ Len(product.metafields[1].value) = 3

\* C3: when the completion collaborator gave an empty reply in a create or
\* update, the invocation ends with a failure string, having saved nothing
\* and having asked nothing after the empty reply; no exception leaves
\* _execute.
C3_EmptyReplyEndsInFailureString ==
    (InCreateOrUpdate /\ pc = "done"
     /\ \E i \in CallsOf("complete") : ~calls[i].ok)
        => /\ result.kind = "str"
           /\ result.tag # "success"
           /\ CallsOf("save") = {}
           /\ \A i \in CallsOf("complete") : ~calls[i].ok => i = Len(calls)

\* C4: in create and update no two calls to the product store serve the
\* same purpose, and a save that failed or raised is the last call of the
\* invocation, which then returns a failure string.
C4_StoreFailureEndsInvocation ==
    (InCreateOrUpdate /\ pc = "done")
        => /\ \A i, j \in 1..Len(calls) :
                (calls[i].c \in StoreCalls /\ calls[i].c = calls[j].c
                 /\ calls[i].a = calls[j].a) => i = j
           /\ \A i \in CallsOf("save") :
                ~calls[i].ok => /\ i = Len(calls)
                                /\ result.kind = "str"
                                /\ result.tag # "success"

\* C5: in delete, a product that is gone from the shop has its backup in the
\* files written: the backup is written before the destroy, and a failed
\* write leaves the product in the shop.
C5_NoDestroyWithoutBackup ==
    (tool = "delete" /\ Found(product) /\ product.id \notin DOMAIN store)
        => BackupFile(inp.product_id, product) \in files

\* C6: a destroy is only ever issued by a delete that was given a numeric
\* product id, and for the product with that id.
C6_DestroyOnlyByProductId ==
    CallsOf("destroy") # {}
        => /\ tool = "delete"
           /\ inp.product_id.s # <<>>
           /\ AllDigits(inp.product_id.s)
           /\ product.id = ToInt(inp.product_id.s)

\* C7: a delete, update or get that found no product has issued no destroy,
\* save or backup write, has left the shop and the files as they were, and
\* returns a plain string.
C7_NotFoundReturnsPlainString ==
    (tool \in {"delete", "update", "get"} /\ pc = "done" /\ ~Found(product))
        => /\ CallsOf("destroy") = {}
           /\ CallsOf("save") = {}
           /\ CallsOf("write_file") = {}
           /\ store = InitialStore
           /\ files = {}
           /\ result.kind = "str"

\* The completion calls made for field f: its prompt and its follow-up.
AskedFor(f) ==
    {i \in CallsOf("complete") : calls[i].a \in {f, f \o "_followup"}}

\* What a literal becomes before validation, by field.
Normalised(f, literal) ==
    CASE f = "title" -> Str(normalize_title(literal.s))
      [] f = "description" -> Str(wrap_description(literal.s))
      [] f = "product_type" -> trim_product_type(literal.s, MaxFieldLength).product_type
      [] f = "tags" -> trim_tags(literal.s, MaxFieldLength).tags
      [] OTHER -> literal

\* An update has gone through its six fields and none of them raised.
FieldsSettled == tool = "update" /\ pc \in {"u_validate", "u_save", "u_metafield"}

StoredField(p, f) ==
    CASE f = "title" -> <<p.title>>
      [] f = "description" -> <<p.body_html>>
      [] f = "product_type" -> <<p.product_type>>
      [] f = "tags" -> <<p.tags>>
      [] f = "price" -> p.variants
      [] OTHER -> <<p.vendor>>

\* A field of the update that has no literal and whose flag is false.
Untouched(f) == ~inp.generate[f] /\ ~Truthy(inp[f])

\* C9: in update no completion call is made for an untouched field, and
\* once the product save succeeded the shop holds, for every untouched
\* field, the value it held before the invocation.
C9_UntouchedFieldsKept ==
    tool = "update" =>
        \A f \in Fields :
            Untouched(f) =>
                /\ AskedFor(f) = {}
                /\ ProductSaved =>
                     StoredField(store[product.id], f)
                         = StoredField(InitialStore[product.id], f)

\* C9, its case: an update that changed the title in the shop and was given
\* nothing for the vendor and the price.
C9_Witness ==
    /\ tool = "update"
    /\ pc = "done"
    /\ result.tag = "success"
    /\ Untouched("vendor")
    /\ Untouched("price")
    /\ store[product.id].title # InitialStore[product.id].title

\* C10: the kept-tags string trim_tags returns has at most max_length
\* characters.
C10_KeptTagsWithinBudget ==
    fn_ret.done => Len(fn_ret.tags.s) <= fn_call.max_length

\* The elements of s at the positions in K, in the order of s.
SubAt(s, K) ==
    LET idx == SelectSeq([i \in 1..Len(s) |-> i], LAMBDA i : i \in K)
    IN  [j \in 1..Len(idx) |-> s[idx[j]]]

\* C11: trim_tags splits the cleaned tags of its input, one per line, into
\* the kept list and the overflow list: each tag goes whole to one of the
\* two, both lists keep the order of the input, the strings returned are
\* the two lists joined with ', ', and the overflow returned is None
\* exactly when no tag was excluded.
C11_TagsSplitWhole ==
    fn_ret.done =>
        LET tags_list == CleanTags(fn_call.tags_string)
            all == 1..Len(tags_list)
        IN  /\ \E K \in SUBSET all :
                 /\ fn_ret.kept = SubAt(tags_list, K)
                 /\ fn_ret.overflow = SubAt(tags_list, all \ K)
            /\ fn_ret.tags = Str(Join(fn_ret.kept, CommaSpace))
            /\ IsNone(fn_ret.tags_metadata) <=> fn_ret.overflow = <<>>
            /\ fn_ret.overflow # <<>>
                 => fn_ret.tags_metadata = Str(Join(fn_ret.overflow, CommaSpace))

\* C11, its case: the second of three tags did not fit and was excluded,
\* the first and the third were kept.
C11_Witness ==
    /\ fn_ret.done
    /\ Len(CleanTags(fn_call.tags_string)) = 3
    /\ Len(fn_ret.kept) = 2
    /\ fn_ret.overflow = <<CleanTags(fn_call.tags_string)[2]>>
    /\ fn_ret.overflow[1] # <<>>

\* The first reply to a price prompt is ambiguous: it has a hyphen, a comma
\* or a space, or more than 5 words.
AmbiguousPriceReply(reply) ==
    \/ \E i \in 1..Len(reply) : reply[i] \in {"-", ",", " "}
    \/ Len(Words(reply)) > 5

\* C12: price generation makes one completion call when the first reply is
\* not ambiguous or is ambiguous with exactly two bare numbers in it, and
\* two calls, the second the follow-up, in every other case; never more.
C12_PriceAsksOnceOrTwice ==
    (fn_call.fn = "generate_specific_price" /\ fn_ret.done) =>
        LET first == fn_call.first.s
            once == \/ ~AmbiguousPriceReply(first)
                    \/ Len(NumberRuns(first, 1)) = 2
        IN  /\ Len(calls) = IF once THEN 1 ELSE 2
            /\ calls[1].c = "complete" /\ calls[1].a = "price"
            /\ ~once => calls[2].c = "complete" /\ calls[2].a = "price_followup"

\* C12, its case: an ambiguous first reply without two numbers was followed
\* by one follow-up, whose reply gave the price.
C12_Witness ==
    /\ fn_call.fn = "generate_specific_price"
    /\ fn_ret.done
    /\ ~fn_ret.raised
    /\ AmbiguousPriceReply(fn_call.first.s)
    /\ Len(NumberRuns(fn_call.first.s, 1)) = 1
    /\ Len(calls) = 2

\* The prices a reply states from position i on: its maximal runs of digits
\* and periods that read as a number and touch no letter, in hundredths.
RECURSIVE PricesFrom(_, _)
PricesFrom(s, i) ==
    IF i > Len(s) THEN <<>>
    ELSE IF s[i] \in Digits \cup {"."}
    THEN LET k == CHOOSE e \in i..Len(s) :
                      /\ \A j \in i..e : s[j] \in Digits \cup {"."}
                      /\ e = Len(s) \/ s[e + 1] \notin Digits \cup {"."}
             number == ParseFloat(SubSeq(s, i, k))
             apart == /\ i = 1 \/ ~IsWordChar(s[i - 1])
                      /\ k = Len(s) \/ ~IsWordChar(s[k + 1])
         IN  (IF number.ok /\ apart THEN <<number.v>> ELSE <<>>)
             \o PricesFrom(s, k + 1)
    ELSE PricesFrom(s, i + 1)

PricesIn(s) == PricesFrom(s, 1)

\* C13: price generation that returned gives as metadata the first reply if
\* that reply was ambiguous and None if not; a reply that is not ambiguous
\* gives its number, a leading '$' dropped; an ambiguous reply that states
\* two prices gives their mean; an ambiguous reply that states one price is
\* not averaged: the follow-up is asked.
C13_PriceValueAndMetadata ==
    (fn_call.fn = "generate_specific_price" /\ fn_ret.done /\ ~fn_ret.raised) =>
        LET first == fn_call.first.s
            ambiguous == AmbiguousPriceReply(first)
            bare == IF Head(first) = "$" THEN Tail(first) ELSE first
            prices == PricesIn(first)
        IN  /\ fn_ret.price_metadata = IF ambiguous THEN fn_call.first ELSE None
            /\ (~ambiguous /\ ParseFloat(bare).ok)
                  => fn_ret.price = Float(ParseFloat(bare).v)
            /\ (ambiguous /\ Len(prices) = 2)
                  => fn_ret.price = Float((prices[1] + prices[2]) \div 2)
            /\ (ambiguous /\ Len(prices) = 1) => Len(calls) = 2

\* A vendor reply names one vendor: no comma and at most 5 words.
SingleVendor(reply) ==
    /\ \A i \in 1..Len(reply) : reply[i] # ","
    /\ Len(Words(reply)) <= 5

\* C14: vendor generation, given a first reply, makes one completion call
\* and returns that reply with metadata None when the reply names one
\* vendor; otherwise it makes exactly one follow-up call and returns its
\* reply as the vendor with the first reply as metadata; it never makes more
\* than two calls, and the vendor it returns names one vendor.
C14_VendorIsOneName ==
    (fn_call.fn = "generate_specific_vendor" /\ fn_ret.done
     /\ Truthy(fn_call.first)) =>
        /\ Len(calls) <= 2
        /\ SingleVendor(fn_call.first.s)
             => /\ Len(calls) = 1
                /\ ~fn_ret.raised
                /\ fn_ret.vendor = fn_call.first
                /\ fn_ret.vendor_metadata = None
        /\ ~SingleVendor(fn_call.first.s)
             => /\ Len(calls) = 2
                /\ calls[2].a = "vendor_followup"
                /\ ~fn_ret.raised
                     => /\ fn_ret.vendor = fn_call.second
                        /\ fn_ret.vendor_metadata = fn_call.first
        /\ ~fn_ret.raised => SingleVendor(fn_ret.vendor.s)

\* C15: validate_field of a price that is not empty returns the number it
\* parses to when that number is at least 0, whether it came as a string or
\* as a number; rejects it as negative when the number is below 0; rejects
\* it as not numeric when it does not parse.
C15_PriceAcceptedIffNotNegative ==
    (fn_call.fn = "validate_field" /\ fn_call.field_type = "price" /\ fn_ret.done) =>
        LET parsed == ToFloat(fn_call.value) IN
        /\ (parsed.ok /\ parsed.v >= 0)
              => ~fn_ret.raised /\ fn_ret.value = Float(parsed.v)
        /\ (parsed.ok /\ parsed.v < 0)
              => fn_ret.raised /\ fn_ret.reason = "negative"
        /\ ~parsed.ok => fn_ret.raised /\ fn_ret.reason = "not_numeric"

\* C16: an update given a literal price that parses to a negative number,
\* and no flag to generate the price, never gets to save the product, and
\* when its validations are reached it ends with a validation error that
\* names the price.
C16_NegativePriceNotPersisted ==
    (tool = "update" /\ ~inp.generate.price
     /\ ToFloat(inp.price).ok /\ ToFloat(inp.price).v < 0)
        => /\ pc \notin {"u_save", "u_metafield"}
           /\ CallsOf("save") = {}
           /\ (pc = "done" /\ result.kind = "str")
                 => result.tag = "validation_error"

\* C17: validate_field of a description that is not empty accepts it only
\* if html_to_plain_text of it is not empty and no longer than max_length.
C17_HtmlValidatedAsRendered ==
    (fn_call.fn = "validate_field" /\ fn_call.field_type = "html"
     /\ fn_ret.done /\ ~fn_ret.raised /\ Truthy(fn_call.value))
        => /\ html_to_plain_text(fn_call.value.s) # <<>>
           /\ Len(html_to_plain_text(fn_call.value.s)) <= fn_call.max_length

\* C18: the list _get_all_products returns holds every product of the
\* catalog exactly once, in ascending order of id.
C18_ListingIsTheCatalog ==
    (tool = "get_all" /\ pc = "done") =>
        /\ Len(loc.products) = Cardinality(DOMAIN store)
        /\ \A k \in 1..Len(loc.products) :
             /\ loc.products[k].id \in DOMAIN store
             /\ loc.products[k] = store[loc.products[k].id]
             /\ k < Len(loc.products) => loc.products[k].id < loc.products[k + 1].id

\* C18, its case: a catalog of twice the page limit, its ids not
\* consecutive, has been listed.
C18_Witness ==
    /\ tool = "get_all"
    /\ pc = "done"
    /\ Cardinality(DOMAIN store) = 2 * PageLimit
    /\ 3 * PageLimit \in DOMAIN store
    /\ Len(loc.products) = 2 * PageLimit

\* What holds of the page requests made so far: their since_id rises, every
\* page but the last one asked for was full, and there are no more of them
\* than the pages of the catalog plus one; when the loop is over the last
\* page was short and the requests are floor(N / limit) + 1.
PageRequestsInOrder ==
    tool = "get_all" =>
        LET N == Cardinality(DOMAIN store)
            n == Len(calls)
        IN  /\ \A i, j \in 1..n : i < j => calls[i].since_id < calls[j].since_id
            /\ \A i \in 1..(n - 1) : calls[i].returned = PageLimit
            /\ n <= (N \div PageLimit) + 1
            /\ pc = "done" => /\ n = (N \div PageLimit) + 1
                              /\ calls[n].returned < PageLimit

\* C19: the loop of _get_all_products ends, after floor(N / limit) + 1 page
\* requests with rising since_id, at the first page shorter than the limit.
C19_ListingEnds == []PageRequestsInOrder /\ <>(pc = "done")

\* C19, its case: a catalog of exactly the page limit took two requests, the
\* second of which returned nothing.
C19_Witness ==
    /\ tool = "get_all"
    /\ pc = "done"
    /\ Cardinality(DOMAIN store) = PageLimit
    /\ Len(calls) = 2
    /\ calls[2].returned = 0

\* The calls that change the product store.
StoreWrites == CallsOf("save") \cup CallsOf("add_metafield")

\* The field f of this invocation is to be generated: create generates what
\* was not passed, update what is flagged.
ToBeGenerated(f) ==
    IF tool = "create" THEN ~Truthy(inp[f]) ELSE inp.generate[f]

\* The field f was passed as a literal and is not flagged for generation.
LiteralOnly(f) == Truthy(inp[f]) /\ ~inp.generate[f]

\* The invocation has gone through its six fields: validation is next or
\* has been done.
ValidationReached ==
    pc \in {"c_validate", "c_save", "c_metafield",
            "u_validate", "u_save", "u_metafield"}

\* C20 as stated: in create and update no call to the product store (find,
\* save, add metafield) comes before a call to the completion collaborator.
C20_CompletionsThenStore ==
    InCreateOrUpdate =>
        \A i \in CallsOf("complete"), j \in 1..Len(calls) :
            calls[j].c \in StoreCalls => i < j

\* The order of the calls so far: every completion call comes before every
\* write to the store, and the one store call that may come earlier is the
\* lookup with which update begins; a field passed as a literal without its
\* flag has no completion call, and once the six fields are through every
\* field to be generated has at least one.
CompletionsBeforeStoreWrites ==
    InCreateOrUpdate =>
        /\ \A i \in CallsOf("complete"), j \in StoreWrites : i < j
        /\ \A j \in CallsOf("find") : tool = "update" /\ j = 1
        /\ \A f \in Fields : LiteralOnly(f) => AskedFor(f) = {}
        /\ ValidationReached =>
             \A f \in Fields : ToBeGenerated(f) => AskedFor(f) # {}

\* From the validation on, no completion call is made.
NoCompletionOnceValidating ==
    (InCreateOrUpdate /\ (ValidationReached \/ pc = "done")) =>
        {i \in 1..Len(calls') : calls'[i].c = "complete"} = CallsOf("complete")

\* C20, amended: in create and update every completion call comes before
\* every write to the store (save, add metafield) and before the validation;
\* update looks its product up first, before any completion call; a
\* generated field has at least one completion call, a literal without its
\* flag none.
C20_CompletionsBeforeWrites ==
    []CompletionsBeforeStoreWrites /\ [][NoCompletionOnceValidating]_vars

\* C20, its case: an update looked its product up, asked the completion
\* collaborator, and saved the product afterwards.
C20_Witness ==
    /\ tool = "update"
    /\ pc = "done"
    /\ calls[1].c = "find"
    /\ CallsOf("complete") # {}
    /\ \E j \in CallsOf("save") : calls[j].ok

\* The word w with its first character in upper case, the case of the rest
\* left open: w and its normal form differ in case only.
SameButForCase(w, v) == Lower(w) = Lower(v)

\* C21: the title normalised has the words of the title; an interior word of
\* the small-word list is in lower case, every other word, the first and the
\* last among them, begins with a capital.
C21_SmallWordsLowerInside ==
    (fn_call.fn = "normalize_title" /\ fn_ret.done) =>
        LET given == Words(fn_call.title)
            got == Words(fn_ret.title)
            n == Len(given)
        IN  /\ Len(got) = n
            /\ fn_ret.title = Join(got, <<" ">>)
            /\ \A i \in 1..n :
                 /\ SameButForCase(given[i], got[i])
                 /\ IF 1 < i /\ i < n /\ Lower(given[i]) \in small_words
                    THEN got[i] = Lower(given[i])
                    ELSE got[i][1] = ToUpper(given[i][1])
            /\ fn_call.title = Title_cat_hat =>
                 fn_ret.title = <<"T", "h", "e", " ", "C", "a", "t", " ", "a", "n", "d",
                                  " ", "t", "h", "e", " ", "H", "a", "t">>
            /\ fn_call.title = Title_hello_world => fn_ret.title = Title_hello_world

\* C21, its case: a title of three words, all of them small words, has been
\* normalised: the one inside is in lower case, the outer ones are not.
C21_Witness ==
    /\ fn_call.fn = "normalize_title"
    /\ fn_ret.done
    /\ fn_call.title = <<"a", " ", "a", " ", "a">>
    /\ fn_ret.title = <<"A", " ", "a", " ", "A">>

\* C22: trim_product_type returns the string and None when it fits, and its
\* first max_length characters and the string itself when it does not.
C22_TypeCutToLength ==
    (fn_call.fn = "trim_product_type" /\ fn_ret.done) =>
        LET s == fn_call.product_type
            m == fn_call.max_length
        IN  /\ Len(fn_ret.product_type.s) <= m \/ Len(s) <= m
            /\ fn_ret.product_type.s = SubSeq(s, 1, Len(fn_ret.product_type.s))
            /\ IF Len(s) <= m
               THEN fn_ret.product_type = Str(s) /\ IsNone(fn_ret.type_metadata)
               ELSE /\ fn_ret.product_type = Str(SubSeq(s, 1, m))
                    /\ fn_ret.type_metadata = Str(s)

\* C22, its case: a product type one character longer than a field may be
\* has been cut.
C22_Witness ==
    /\ fn_call.fn = "trim_product_type"
    /\ fn_ret.done
    /\ fn_call.product_type = LongType
    /\ fn_call.max_length = MaxFieldLength
    /\ Len(fn_ret.product_type.s) = MaxFieldLength
    /\ fn_ret.type_metadata = Str(LongType)

\* The non-blank lines of a reply.
NonBlankLines(reply) == SelectNonBlank(Split(reply, "\n"))

\* C23: the description generated from a reply has one paragraph per
\* non-blank line of the reply, in order, none of them empty, and its plain
\* text is those lines joined by newlines.
C23_ParagraphPerLine ==
    (fn_call.fn = "generate_description" /\ fn_ret.done /\ ~fn_ret.raised) =>
        LET lines == NonBlankLines(fn_call.reply.s)
            paragraphs == Paragraphs(fn_ret.description, FALSE, <<>>)
        IN  /\ paragraphs = lines
            /\ \A i \in 1..Len(paragraphs) : paragraphs[i] # <<>>
            /\ html_to_plain_text(fn_ret.description) = Join(lines, <<"\n">>)

\* The rows r of a report are in the order the sort option names: by id
\* for default, by title for alpha, by price as a number for price.
InOrderOf(sortby, r) ==
    \A i \in 1..(Len(r) - 1) :
        LET parts == Split(sortby, "-")
            desc == Len(parts) = 2 /\ parts[2] = <<"d", "e", "s", "c">>
            x == IF desc THEN r[i + 1] ELSE r[i]
            y == IF desc THEN r[i] ELSE r[i + 1]
        IN  /\ sortby = Sort_default => r[i].product_id < r[i + 1].product_id
            /\ parts[1] = <<"a", "l", "p", "h", "a">> => ~StrLess(y.title.s, x.title.s)
            /\ parts[1] = <<"p", "r", "i", "c", "e">> =>
                 /\ ToFloat(x.price).ok /\ ToFloat(y.price).ok
                    => ToFloat(x.price).v <= ToFloat(y.price).v

\* C24: for every sort option and every catalog that is not empty, Get All
\* Products returns a report with one row per product, in the order the
\* option names.
C24_EverySortOptionReports ==
    (tool = "get_all_products" /\ pc = "done" /\ DOMAIN store # {}) =>
        /\ result.kind = "str"
        /\ result.tag = "found"
        /\ {result.report[i] : i \in 1..Len(result.report)}
              = {generate_product_details(store[i]) : i \in DOMAIN store}
        /\ Len(result.report) = Cardinality(DOMAIN store)
        /\ InOrderOf(inp.sortby, result.report)

\* C25: in update the backup is written before the product is touched and
\* before any save: as long as write_file has not been called the product in
\* memory and the shop are as they were found, every save comes after the
\* one call of write_file, and the file written holds the product as found.
C25_BackupBeforeChange ==
    (tool = "update" /\ Found(FindById(InitialStore, inp.product_id))) =>
        LET found == FindById(InitialStore, inp.product_id)
        IN  /\ CallsOf("write_file") = {} => (product = found /\ store = InitialStore)
            /\ Cardinality(CallsOf("write_file")) <= 1
            /\ \A w \in CallsOf("write_file") :
                 \A j \in CallsOf("save") \cup CallsOf("add_metafield")
                          \cup CallsOf("complete") : w < j
            /\ \A f \in files : f = BackupFile(inp.product_id, found)
            /\ (\E w \in CallsOf("write_file") : calls[w].ok)
                  => BackupFile(inp.product_id, found) \in files

\* C25, its case: an update that was passed a vendor wrote its backup and
\* saved the product with that vendor.
C25_Witness ==
    /\ tool = "update"
    /\ pc = "done"
    /\ Truthy(inp.vendor)
    /\ files # {}
    /\ \E j \in CallsOf("save") : calls[j].ok
    /\ store # InitialStore

\* The comma-separated tags of a criterion, trimmed and in lower case.
TagsAskedFor(tags) ==
    LET parts == Split(tags, ",")
    IN  {Lower(Strip(parts[i])) : i \in 1..Len(parts)}

\* The ids of the products of the shop that match the criteria c: every
\* criterion given is found in the product, letter case set aside.
Selected(c) ==
    {i \in DOMAIN store :
        /\ Truthy(c.title) => Within(Lower(c.title.s), Lower(store[i].title.s))
        /\ Truthy(c.product_type)
              => Within(Lower(c.product_type.s), Lower(store[i].product_type.s))
        /\ Truthy(c.vendor) => Within(Lower(c.vendor.s), Lower(store[i].vendor.s))
        /\ Truthy(c.tags)
              => \A t \in TagsAskedFor(c.tags.s) : Within(t, Lower(store[i].tags.s))}

\* The calls of update a bulk update has made.
UpdateCalls == CallsOf("update")

\* C26: a bulk update that has ended returned its change table or "No
\* updates were made.", having called update once for every product that
\* matches the criteria and for no other, with the flags and literals it
\* was given; a product is in the table only with details that differ.
C26_BulkUpdatesEveryMatch ==
    (tool = "bulk_update" /\ pc = "done" /\ ~NoCriterion(inp.criteria)) =>
        /\ result.kind = "str"
        /\ {calls[i].product_id : i \in UpdateCalls} = Selected(inp.criteria)
        /\ Cardinality(UpdateCalls) = Cardinality(Selected(inp.criteria))
        /\ \A i \in UpdateCalls : calls[i].args = inp.update
        /\ result.tag = "updated" <=> loc.product_changes # <<>>
        /\ \A k \in 1..Len(loc.product_changes) :
             loc.product_changes[k].old # loc.product_changes[k].new

\* C27: search and bulk update select the same products for the same
\* criteria: those that match every criterion given, whatever the letter
\* case of the criteria.
C27_SameSelection ==
    ((tool = "search_products" /\ pc = "s_report")
     \/ (tool = "bulk_update" /\ pc = "b_update")) =>
        LET c == IF tool = "bulk_update" THEN inp.criteria ELSE inp
        IN  /\ {loc.matching[k].id : k \in 1..Len(loc.matching)} = Selected(c)
            /\ Len(loc.matching) = Cardinality(Selected(c))

\* C29: a search with at least one criterion returns a report, "Found n
\* products" with a row for each product that matches, also when n is 0.
C29_SearchAlwaysReports ==
    (tool = "search_products" /\ pc = "done" /\ ~NoCriterion(inp)) =>
        /\ result.kind = "str"
        /\ result.tag = "found"
        /\ Len(result.report) = Len(loc.matching)

\* C28: an update that only generates the price, and got an unambiguous
\* number for it, does not fail: it is not left by an exception nor by a
\* validation error, the price validated is the generated one, and once
\* saved every variant of the product has that price.
C28_GeneratedPriceIsSaved ==
    (/\ tool = "update"
     /\ pc = "done"
     /\ inp.generate.price
     /\ \A f \in Fields : ~Truthy(inp[f]) /\ (f # "price" => ~inp.generate[f])
     /\ IsFloat(loc.price)
     /\ IsNone(loc.price_metadata)) =>
        /\ result.kind = "str"
        /\ result.tag # "validation_error"
        /\ (\E j \in CallsOf("save") : calls[j].ok) =>
              \A i \in 1..Len(store[product.id].variants) :
                  store[product.id].variants[i] = loc.price

\* Create was given a title, a product type or a description.
EnoughToCreate ==
    Truthy(inp.title) \/ Truthy(inp.product_type) \/ Truthy(inp.description)

\* C30: create without a title, a product type and a description returns
\* the warning and has called neither the completion collaborator nor the
\* shop; with one of the three it goes on to generation.
C30_InsufficientInformation ==
    tool = "create" =>
        IF EnoughToCreate
        THEN /\ result.tag # "insufficient"
             /\ pc \in {"c_title", "c_description", "c_product_type", "c_tags",
                        "c_price", "c_vendor", "c_validate", "c_save",
                        "c_metafield", "done"}
             /\ pc = "done" => (calls # <<>> \/ result.tag = "validation_error")
        ELSE /\ pc = "done"
             /\ result.kind = "str"
             /\ result.tag = "insufficient"
             /\ calls = <<>>
             /\ store = InitialStore
             /\ files = {}

\* C30, its case: create was given a price and a vendor but none of the
\* three, and returned the warning.
C30_Witness ==
    /\ tool = "create"
    /\ pc = "done"
    /\ ~EnoughToCreate
    /\ Truthy(inp.price)
    /\ Truthy(inp.vendor)
    /\ result.tag = "insufficient"

====
